---- MODULE Spec2Model ----
(***************************************************************************)
(* A model of the scoring pipeline of the CRA scam-detection API:          *)
(*   - CacheService.getOrSet and the benchmark memo of                     *)
(*     EmergingThreatService.getCTRBenchmarks        (specification Spec)  *)
(*   - EmbeddingService and the embedding step of getEmergingThreats       *)
(*                                                    (SpecEmbed)          *)
(*   - SearchConsoleService.getSearchAnalytics        (SpecAnalytics)      *)
(*   - calculateCTRBenchmarks / getCTRBenchmarks      (SpecBench)          *)
(*   - ComparisonService.comparePeriods               (SpecCompare)        *)
(*   - ScamDetectionService.analyzeQuery              (SpecScam)           *)
(* Every specification moves the variables of its own component and        *)
(* leaves the others at their initial value.                               *)
(***************************************************************************)
EXTENDS Integers, Sequences, FiniteSets, TLC

VARIABLES
    \* ---- CacheService / benchmark memo
    cache,              \* key -> NoEntry or [val, exp]   (NodeCache data)
    now,                \* the clock, in seconds
    pc,                 \* caller -> "idle" | "fetching"  (position in getOrSet)
    fetchCount,         \* number of fetchFn invocations for the benchmark key
    dynamicBenchmarks,  \* EmergingThreatService.dynamicBenchmarks
    served,             \* caller -> the last benchmarks returned to it
    \* ---- calculateCTRBenchmarks / getCTRBenchmarks on given analytics data
    benchRows,          \* the rows getAnalyticsForDateRange returns
    benchPc,            \* "input" | "done"
    benchFailed,        \* whether calculateCTRBenchmarks rejected
    benchOut,           \* the CTRBenchmarks getCTRBenchmarks returned
    \* ---- ComparisonService.comparePeriods
    cmpCurrent,         \* rows of getAnalyticsForDateRange(currentPeriod)
    cmpPrevious,        \* rows of getAnalyticsForDateRange(previousPeriod)
    cmpPc,              \* "input" | "done"
    cmpOut,             \* the ComparisonResponse
    \* ---- ScamDetectionService.analyzeQuery
    scamQuery,          \* row.keys[0]: the query text, a sequence of pieces of text
    scamDate,           \* <<month, day>> of `new Date()` at the analysis
    scamPc,             \* "input" | "done"
    scamResult,         \* the FlaggedTerm returned, or Null
    \* ---- SearchConsoleService.getSearchAnalytics
    saPc,               \* "idle" | "fetching" | "done" | "aborted"
    saIdx,              \* index into craUrlFilters of the filter being fetched
    saAllRows,          \* allRows of getSearchAnalytics
    saPageRows,         \* allRows of the running fetchWithPagination
    saStartRow,         \* startRow of the running fetchWithPagination
    saFetched,          \* per filter: what its fetchWithPagination produced
    saWarnings,         \* filters for which logger.warn was called
    saResult,           \* the rows the call returned
    saCache,            \* the cache entry `analytics:${query}`
    \* ---- EmbeddingService
    embOpenai,          \* this.openai !== null
    embInitialized,     \* this.initialized
    embInitPc,          \* onModuleInit: "new" | "computing" | "done"
    embSeedPhrases,     \* this.seedPhrases
    embSeedEmbeddings,  \* this.seedEmbeddings, entries in insertion order
    embSeedCache,       \* the cache entry 'seed-embeddings-v1'
    embBackendCalls,    \* number of openai.embeddings.create requests sent
    embCall,            \* the latest findSimilarPhrases / analyzeQueries call
    \* ---- EmergingThreatService.getEmergingThreats
    etTerms,            \* comparison.terms as the ComparisonService delivers them
    etPc,               \* "idle" | "fetching" | "embedding" | "done" | "failed"
    etReq,              \* the running request: key, benchmarks, embedding step
    etServed,           \* what the last finished request returned
    etCache,            \* cache entries `emerging-threats:${days}:page-${validPage}`
    etRequests,         \* number of requests made
    rsQuery,            \* term.query of the term being scored
    rsCurrent,          \* term.current: the metrics of the current period
    rsPrevious,         \* the term's previous period: absent or its metrics
    rsMatch,            \* embeddingMatch: undefined or the top semantic match
    rsPc,               \* "input" | "done"
    rsOut,              \* riskScore, the analysed threat and whether it was pushed
    rkTerms,            \* comparison.terms of one input snapshot
    rkRuns,             \* per run over the snapshot: allThreats as sorted, threats returned
    seasonConfig,       \* keywordsConfig.seasonalMultipliers as loaded from the configuration
    seasonDate,         \* <<month, day>> of `new Date()` at the last adjustment
    seasonBase,         \* baseSeverity of the last adjustment
    seasonOut,          \* what applySeasonalAdjustment returned; "none" before any call
    gosCache,           \* NodeCache entries of the trends and scams keys
    gosPc,              \* "idle" | "fetching" | "returned" | "thrown"
    gosCall,            \* the getOrSet call under way or last finished
    gosFetches          \* number of fetchFn invocations

cacheVars == <<cache, now, pc, fetchCount, dynamicBenchmarks, served>>
benchVars == <<benchRows, benchPc, benchFailed, benchOut>>

cmpVars == <<cmpCurrent, cmpPrevious, cmpPc, cmpOut>>

scamVars == <<scamQuery, scamDate, scamPc, scamResult>>

saVars == <<saPc, saIdx, saAllRows, saPageRows, saStartRow, saFetched, saWarnings,
           saResult, saCache>>

embVars == <<embOpenai, embInitialized, embInitPc, embSeedPhrases, embSeedEmbeddings,
            embSeedCache, embBackendCalls, embCall>>

etVars == <<etTerms, etPc, etReq, etServed, etCache, etRequests>>

rsVars == <<rsQuery, rsCurrent, rsPrevious, rsMatch, rsPc, rsOut>>

rkVars == <<rkTerms, rkRuns>>

seasonVars == <<seasonConfig, seasonDate, seasonBase, seasonOut>>

gosVars == <<gosCache, gosPc, gosCall, gosFetches>>

vars == <<cacheVars, benchVars, cmpVars, scamVars, saVars, embVars, etVars, rsVars, rkVars, seasonVars, gosVars>>

(***************************************************************************)
(* Bounds of the model.                                                    *)
(***************************************************************************)
NumCallers == 2
MaxTicks == 4
TickSeconds == 43200
MaxFetches == 3
MaxBenchRows == 3
MaxCmpRows == 2
MaxQueryLen == 3
MaxTotalRows == 3
\* Rows of a full page of the Search Console API (25000 in the source, scaled down)
PageSize == 1
MaxBackendCalls == 3
MaxBatch == 2
MaxTerms == 3
MaxRequests == 2
MaxRankTerms == 3
\* startRow is counted modulo StartRowSpan once the rows on record are at their bound
StartRowSpan == 8
MaxRuns == 2
MaxGosFetches == 3

(***************************************************************************)
(* CacheService (a NodeCache with per-entry TTL).                          *)
(***************************************************************************)
\* null, undefined and an absent cache slot, as records so that they compare with
\* every value the program stores.
Null == [kind |-> "null"]
Undefined == [kind |-> "undefined"]
NoEntry == [kind |-> "noentry"]

BenchmarksTtl == 86400
BenchmarkKey == "ctr-benchmarks:90:10"
Keys == {BenchmarkKey}
Callers == 1..NumCallers

\* NodeCache.get: an entry past its expiry time reads as undefined.
CacheGet(k) ==
    IF cache[k] # NoEntry /\ ~(cache[k].exp < now) THEN cache[k].val ELSE Undefined

\* NodeCache.get drops the expired entry it finds.
CacheAfterGet(k) ==
    IF cache[k] # NoEntry /\ cache[k].exp < now
    THEN [cache EXCEPT ![k] = NoEntry]
    ELSE cache

\* CacheService.set(key, value, ttlSeconds)
CacheSet(c, k, v, ttl) == [c EXCEPT ![k] = [val |-> v, exp |-> now + ttl]]

\* The tail of getOrSet after `await fetchFn()`: null and undefined are not stored.
GetOrSetStore(k, v, ttl) ==
    IF v # Null /\ v # Undefined THEN CacheSet(cache, k, v, ttl) ELSE cache

\* The CTRBenchmarks object calculateCTRBenchmarks builds at time `now`.
ComputedBenchmarks == [kind |-> "benchmarks", calculatedAt |-> now, measured |-> TRUE]

\* The object the catch branch of getCTRBenchmarks returns.
CatchBenchmarks == [kind |-> "benchmarks", calculatedAt |-> now, measured |-> FALSE]

Serve(c, v) == [served EXCEPT ![c] = [val |-> v, at |-> now]]

InitCache ==
    /\ cache = [k \in Keys |-> NoEntry]
    /\ now = 0
    /\ pc = [c \in Callers |-> "idle"]
    /\ fetchCount = 0
    /\ dynamicBenchmarks = Null
    /\ served = [c \in Callers |-> Null]

\* getCTRBenchmarks up to its first await: the memo, then getOrSet's cache lookup
\* inside calculateCTRBenchmarks; on a miss fetchFn is invoked and awaited.
GetCTRBenchmarks(c) ==
    /\ pc[c] = "idle"
    /\ IF dynamicBenchmarks # Null
       THEN /\ served' = Serve(c, dynamicBenchmarks)
            /\ UNCHANGED <<cache, pc, fetchCount, dynamicBenchmarks>>
       ELSE IF CacheGet(BenchmarkKey) # Undefined
       THEN /\ dynamicBenchmarks' = CacheGet(BenchmarkKey)
            /\ served' = Serve(c, CacheGet(BenchmarkKey))
            /\ UNCHANGED <<cache, pc, fetchCount>>
       ELSE /\ fetchCount < MaxFetches
            /\ cache' = CacheAfterGet(BenchmarkKey)
            /\ pc' = [pc EXCEPT ![c] = "fetching"]
            /\ fetchCount' = fetchCount + 1
            /\ UNCHANGED <<dynamicBenchmarks, served>>
    /\ UNCHANGED now

\* fetchFn resolves: getOrSet stores the value, calculateCTRBenchmarks returns it,
\* getCTRBenchmarks assigns the memo and returns.
FetchResolves(c) ==
    /\ pc[c] = "fetching"
    /\ cache' = GetOrSetStore(BenchmarkKey, ComputedBenchmarks, BenchmarksTtl)
    /\ dynamicBenchmarks' = ComputedBenchmarks
    /\ served' = Serve(c, ComputedBenchmarks)
    /\ pc' = [pc EXCEPT ![c] = "idle"]
    /\ UNCHANGED <<now, fetchCount>>

\* fetchFn rejects: getOrSet rejects, the catch of getCTRBenchmarks returns the
\* fallback object; neither the cache nor the memo is written.
FetchRejects(c) ==
    /\ pc[c] = "fetching"
    /\ served' = Serve(c, CatchBenchmarks)
    /\ pc' = [pc EXCEPT ![c] = "idle"]
    /\ UNCHANGED <<cache, now, fetchCount, dynamicBenchmarks>>

Tick ==
    /\ now < MaxTicks * TickSeconds
    /\ now' = now + TickSeconds
    /\ UNCHANGED <<cache, pc, fetchCount, dynamicBenchmarks, served>>

(***************************************************************************)
(* Dynamic Benchmark Calculator.  A CTR is an integer number of 1e-5; a    *)
(* position is an integer number of tenths; a benchmark value (min,        *)
(* expected, max) is an integer number of 1e-6, so that the linear         *)
(* interpolation of the percentiles (in tenths of an index step for the    *)
(* 10th, 50th and 90th percentile) is exact.                               *)
(***************************************************************************)
PositionRanges == <<"1-3", "4-8", "9-15", "16+">>

\* minImpressions as getCTRBenchmarks passes it
MinImpressions == 10

\* The bucket of a position (in tenths): position <= 3, <= 8, <= 15, else.
PositionRange(position) ==
    IF position <= 30 THEN "1-3"
    ELSE IF position <= 80 THEN "4-8"
    ELSE IF position <= 150 THEN "9-15"
    ELSE "16+"

\* `defaults` of calculateBenchmark, in 1e-6
DefaultMin(range) ==
    CASE range = "1-3" -> 30000
      [] range = "4-8" -> 20000
      [] range = "9-15" -> 10000
      [] range = "16+" -> 5000

DefaultExpected(range) ==
    CASE range = "1-3" -> 200000
      [] range = "4-8" -> 100000
      [] range = "9-15" -> 50000
      [] range = "16+" -> 20000

RECURSIVE InsertAsc(_, _)
InsertAsc(sorted, x) ==
    IF sorted = <<>> THEN <<x>>
    ELSE IF x < Head(sorted) THEN <<x>> \o sorted
    ELSE <<Head(sorted)>> \o InsertAsc(Tail(sorted), x)

RECURSIVE SortAscFrom(_, _)
SortAscFrom(s, acc) ==
    IF s = <<>> THEN acc ELSE SortAscFrom(Tail(s), InsertAsc(acc, Head(s)))

\* A plausible slip: the percentiles are taken from the unsorted CTRs.
SortAsc_Unsorted(ctrs) == ctrs

\* [...ctrs].sort((a, b) => a - b)
SortAsc(ctrs) == SortAscFrom(ctrs, <<>>)

\* percentile(p) for p = 10 * k over `sorted` (n >= 1), in 1e-6:
\* index = (p / 100) * (n - 1), interpolated between floor and ceil.
Percentile(sorted, k) ==
    LET idx10 == k * (Len(sorted) - 1)
        lower == idx10 \div 10
        frac10 == idx10 % 10
        upper == IF frac10 = 0 THEN lower ELSE lower + 1
    IN  IF lower = upper
        THEN 10 * sorted[lower + 1]
        ELSE 10 * sorted[lower + 1] + frac10 * (sorted[upper + 1] - sorted[lower + 1])

\* calculateBenchmark(positionRange, ctrs)
CalculateBenchmark(range, ctrs) ==
    IF Len(ctrs) = 0
    THEN [positionRange |-> range,
          min |-> DefaultMin(range),
          expected |-> DefaultExpected(range),
          max |-> (DefaultExpected(range) * 3) \div 2,
          sampleSize |-> 0]
    ELSE LET sorted == SortAsc(ctrs)
         IN  [positionRange |-> range,
              min |-> Percentile(sorted, 1),
              expected |-> Percentile(sorted, 5),
              max |-> Percentile(sorted, 9),
              sampleSize |-> Len(ctrs)]

RECURSIVE CtrsOf(_, _)
\* positionGroups[range]: the CTRs of the rows of that bucket, in row order
CtrsOf(rows, range) ==
    IF rows = <<>> THEN <<>>
    ELSE IF PositionRange(Head(rows).position) = range
         THEN <<Head(rows).ctr>> \o CtrsOf(Tail(rows), range)
         ELSE CtrsOf(Tail(rows), range)

SignificantQueries(allData, minImpressions) ==
    LET Significant(row) == row.impressions >= minImpressions
    IN  SelectSeq(allData, Significant)

\* The fetchFn of calculateCTRBenchmarks on the rows getAnalyticsForDateRange gave
CalculateCTRBenchmarks(allData, minImpressions) ==
    LET significant == SignificantQueries(allData, minImpressions)
    IN  [buckets |-> [range \in {PositionRanges[i] : i \in 1..4} |->
                        CalculateBenchmark(range, CtrsOf(significant, range))],
         totalQueriesAnalyzed |-> Len(significant)]

\* The literal the catch branch of getCTRBenchmarks returns
FallbackBenchmarks ==
    [buckets |->
        [range \in {PositionRanges[i] : i \in 1..4} |->
            CASE range = "1-3" ->
                   [positionRange |-> "1-3", min |-> 30000, expected |-> 200000,
                    max |-> 300000, sampleSize |-> 0]
              [] range = "4-8" ->
                   [positionRange |-> "4-8", min |-> 20000, expected |-> 100000,
                    max |-> 150000, sampleSize |-> 0]
              [] range = "9-15" ->
                   [positionRange |-> "9-15", min |-> 10000, expected |-> 50000,
                    max |-> 80000, sampleSize |-> 0]
              [] range = "16+" ->
                   [positionRange |-> "16+", min |-> 5000, expected |-> 20000,
                    max |-> 30000, sampleSize |-> 0]],
     totalQueriesAnalyzed |-> 0]

\* Rows of the analytics source used as benchmark data
BenchPositions == {30, 90, 160}
BenchCtrs == {125, 2000, 3250}
BenchImpressions == {9, 800}
BenchRowValues ==
    [position : BenchPositions, ctr : BenchCtrs, impressions : BenchImpressions]

InitBench ==
    /\ benchRows = <<>>
    /\ benchPc = "input"
    /\ benchFailed = FALSE
    /\ benchOut = Null

\* The analytics source holds one more query row.
BenchAddRow(row) ==
    /\ benchPc = "input"
    /\ Len(benchRows) < MaxBenchRows
    /\ benchRows' = Append(benchRows, row)
    /\ UNCHANGED <<benchPc, benchFailed, benchOut>>

\* getCTRBenchmarks with no memo yet: calculateCTRBenchmarks(90, 10) resolves.
BenchGetResolves ==
    /\ benchPc = "input"
    /\ benchOut' = CalculateCTRBenchmarks(benchRows, MinImpressions)
    /\ benchFailed' = FALSE
    /\ benchPc' = "done"
    /\ UNCHANGED benchRows

\* getCTRBenchmarks with no memo yet: calculateCTRBenchmarks(90, 10) rejects.
BenchGetRejects ==
    /\ benchPc = "input"
    /\ benchOut' = FallbackBenchmarks
    /\ benchFailed' = TRUE
    /\ benchPc' = "done"
    /\ UNCHANGED benchRows

(***************************************************************************)
(* Period Comparator.  A percentage is an exact fraction [num, den] with   *)
(* den > 0: calculatePercentChange divides, and the quotient need not be   *)
(* an integer.                                                             *)
(***************************************************************************)
\* String.prototype.toLowerCase on the query texts of the model
ToLower(str) ==
    CASE str = "CRA Gift Card" -> "cra gift card"
      [] str = "Tax Refund" -> "tax refund"
      [] OTHER -> str

\* row.keys[0]?.toLowerCase() || ''   ("" also stands for a missing key)
RowQuery(row) == ToLower(row.query)

\* A slip: a new term (previous = 0) reported as 0 % instead of 100 %.
CalculatePercentChange_ZeroForNew(previous, current) ==
    IF previous = 0
    THEN [num |-> 0, den |-> 1]
    ELSE [num |-> (current - previous) * 100, den |-> previous]

\* calculatePercentChange(previous, current), previous >= 0
CalculatePercentChange(previous, current) ==
    IF previous = 0
    THEN [num |-> IF current > 0 THEN 100 ELSE 0, den |-> 1]
    ELSE [num |-> (current - previous) * 100, den |-> previous]

RECURSIVE MapKeysFrom(_, _)
\* The keys of the Map built by `for (row of rows) map.set(key(row), row)`, in
\* insertion order: a key set again keeps its first place.
MapKeysFrom(rows, acc) ==
    IF rows = <<>> THEN acc
    ELSE LET k == RowQuery(Head(rows))
         IN  MapKeysFrom(Tail(rows),
                         IF \E i \in 1..Len(acc) : acc[i] = k THEN acc ELSE Append(acc, k))

MapKeys(rows) == MapKeysFrom(rows, <<>>)

MapHas(rows, k) == \E i \in 1..Len(rows) : RowQuery(rows[i]) = k

\* map.get(k): the row set last under k
MapGet(rows, k) ==
    LET last == CHOOSE i \in 1..Len(rows) :
                    /\ RowQuery(rows[i]) = k
                    /\ \A j \in (i + 1)..Len(rows) : RowQuery(rows[j]) # k
    IN  rows[last]

\* A slip: only the current period's queries are compared.
AllQueries_CurrentOnly(currentData, previousData) == MapKeys(currentData)

\* new Set([...currentMap.keys(), ...previousMap.keys()]), in iteration order
AllQueries(currentData, previousData) ==
    LET cur == MapKeys(currentData)
        prev == MapKeys(previousData)
        NotInCurrent(k) == ~MapHas(currentData, k)
    IN  cur \o SelectSeq(prev, NotInCurrent)

ZeroMetrics == [impressions |-> 0, clicks |-> 0, ctr |-> 0, position |-> 0]

MetricsOf(row) ==
    [impressions |-> row.impressions, clicks |-> row.clicks,
     ctr |-> row.ctr, position |-> row.position]

\* The TermComparison pushed for `query` (lines 73-129)
TermComparisonOf(query, currentData, previousData) ==
    LET hasCurrent == MapHas(currentData, query)
        hasPrevious == MapHas(previousData, query)
        currentMetrics == IF hasCurrent THEN MetricsOf(MapGet(currentData, query))
                          ELSE ZeroMetrics
        previousMetrics == IF hasPrevious THEN MetricsOf(MapGet(previousData, query))
                           ELSE ZeroMetrics
    IN  [query |-> query,
         current |-> currentMetrics,
         previous |-> previousMetrics,
         change |->
            [impressions |-> currentMetrics.impressions - previousMetrics.impressions,
             impressionsPercent |->
                CalculatePercentChange(previousMetrics.impressions,
                                       currentMetrics.impressions),
             clicks |-> currentMetrics.clicks - previousMetrics.clicks,
             clicksPercent |->
                CalculatePercentChange(previousMetrics.clicks, currentMetrics.clicks),
             ctr |-> currentMetrics.ctr - previousMetrics.ctr,
             position |-> currentMetrics.position - previousMetrics.position],
         isNew |-> ~hasPrevious /\ hasCurrent,
         isGone |-> hasPrevious /\ ~hasCurrent]

RECURSIVE TermsFor(_, _, _)
\* The loop over allQueries: the empty query is skipped.
TermsFor(queries, currentData, previousData) ==
    IF queries = <<>> THEN <<>>
    ELSE IF Head(queries) = ""
         THEN TermsFor(Tail(queries), currentData, previousData)
         ELSE <<TermComparisonOf(Head(queries), currentData, previousData)>>
              \o TermsFor(Tail(queries), currentData, previousData)

RECURSIVE InsertByImpressionChange(_, _)
\* Insert t after every element that does not sort strictly after it.
InsertByImpressionChange(sorted, t) ==
    IF sorted = <<>> THEN <<t>>
    ELSE IF t.change.impressions > Head(sorted).change.impressions
         THEN <<t>> \o sorted
         ELSE <<Head(sorted)>> \o InsertByImpressionChange(Tail(sorted), t)

RECURSIVE SortByImpressionChangeFrom(_, _)
SortByImpressionChangeFrom(terms, acc) ==
    IF terms = <<>> THEN acc
    ELSE SortByImpressionChangeFrom(Tail(terms),
                                    InsertByImpressionChange(acc, Head(terms)))

\* termComparisons.sort((a, b) => b.change.impressions - a.change.impressions):
\* descending, and stable (Array.prototype.sort)
SortByImpressionChange(terms) == SortByImpressionChangeFrom(terms, <<>>)

RECURSIVE TotalCurrentImpressions(_)
TotalCurrentImpressions(terms) ==
    IF terms = <<>> THEN 0
    ELSE Head(terms).current.impressions + TotalCurrentImpressions(Tail(terms))

RECURSIVE TotalPreviousImpressions(_)
TotalPreviousImpressions(terms) ==
    IF terms = <<>> THEN 0
    ELSE Head(terms).previous.impressions + TotalPreviousImpressions(Tail(terms))

\* The fetchFn of comparePeriods on the two periods' rows
ComparePeriods(currentData, previousData) ==
    LET allQueries == AllQueries(currentData, previousData)
        termComparisons == TermsFor(allQueries, currentData, previousData)
        IsNew(t) == t.isNew
        IsGone(t) == t.isGone
        totalCurrent == TotalCurrentImpressions(termComparisons)
        totalPrevious == TotalPreviousImpressions(termComparisons)
    IN  [terms |-> SortByImpressionChange(termComparisons),
         summary |->
            [totalTerms |-> Len(allQueries),
             newTerms |-> Len(SelectSeq(termComparisons, IsNew)),
             goneTerms |-> Len(SelectSeq(termComparisons, IsGone)),
             totalImpressions |->
                [current |-> totalCurrent,
                 previous |-> totalPrevious,
                 change |-> totalCurrent - totalPrevious,
                 changePercent |-> CalculatePercentChange(totalPrevious, totalCurrent)]]]

\* The rows a period can hold: getAnalyticsForDateRange returns the output of
\* aggregateByQuery, one row per lower-cased query text ("" for a row without one).
CmpQueries == {"", "cra gift card", "tax refund"}
CmpMetrics ==
    { [impressions |-> 0, clicks |-> 0, ctr |-> 0, position |-> 0],
      [impressions |-> 50, clicks |-> 5, ctr |-> 10000, position |-> 40],
      [impressions |-> 150, clicks |-> 0, ctr |-> 0, position |-> 20] }
CmpRowValues ==
    { [query |-> q, impressions |-> m.impressions, clicks |-> m.clicks,
       ctr |-> m.ctr, position |-> m.position] : q \in CmpQueries, m \in CmpMetrics }

InitCompare ==
    /\ cmpCurrent = <<>>
    /\ cmpPrevious = <<>>
    /\ cmpPc = "input"
    /\ cmpOut = Null

\* The analytics source holds one more query in the current period.
CmpAddCurrent(row) ==
    /\ cmpPc = "input"
    /\ Len(cmpCurrent) < MaxCmpRows
    /\ ~MapHas(cmpCurrent, RowQuery(row))
    /\ cmpCurrent' = Append(cmpCurrent, row)
    /\ UNCHANGED <<cmpPrevious, cmpPc, cmpOut>>

\* The analytics source holds one more query in the previous period.
CmpAddPrevious(row) ==
    /\ cmpPc = "input"
    /\ Len(cmpPrevious) < MaxCmpRows
    /\ ~MapHas(cmpPrevious, RowQuery(row))
    /\ cmpPrevious' = Append(cmpPrevious, row)
    /\ UNCHANGED <<cmpCurrent, cmpPc, cmpOut>>

\* comparePeriods on a cache miss, both fetches resolved
ComparePeriodsCall ==
    /\ cmpPc = "input"
    /\ cmpOut' = ComparePeriods(cmpCurrent, cmpPrevious)
    /\ cmpPc' = "done"
    /\ UNCHANGED <<cmpCurrent, cmpPrevious>>

(***************************************************************************)
(* Rule-Based Classifier.  A text is a sequence of indivisible pieces      *)
(* (words); String.includes is containment of a contiguous run of pieces.  *)
(***************************************************************************)
\* toLowerCase of one piece of text
LowerPiece(piece) == IF piece = "CRA" THEN "cra" ELSE piece

\* String.prototype.toLowerCase
LowerText(text) == [i \in 1..Len(text) |-> LowerPiece(text[i])]

\* String.prototype.includes
Includes(text, pattern) ==
    \E i \in 0..(Len(text) - Len(pattern)) : SubSeq(text, i + 1, i + Len(pattern)) = pattern

\* keywordsConfig: a configuration of the shape of scam-keywords.json
KeywordsConfig ==
    [categories |->
        [fakeExpiredBenefits |-> [severity |-> "critical", terms |-> << <<"rebate">> >>],
         illegitimatePaymentMethods |->
            [severity |-> "critical", mustContain |-> << <<"cra">> >>,
             terms |-> << <<"gift", "card">> >>],
         threatLanguage |->
            [severity |-> "high", mustContain |-> << <<"cra">> >>,
             terms |-> << <<"arrest">> >>],
         suspiciousModifiers |-> [severity |-> "medium", terms |-> << <<"urgent">> >>]],
     whitelist |-> [patterns |-> << <<"CRA", "login">> >>],
     seasonalMultipliers |->
        [taxSeason |-> [startMonth |-> 2, startDay |-> 15, endMonth |-> 4, endDay |-> 30],
         gstPayment |-> [months |-> {1, 4, 7, 10}, days |-> {5}],
         ccrPayment |-> [months |-> {1, 4, 7, 10}, days |-> {15}]]]

\* A slip: the whitelist compared for equality instead of containment.
IsWhitelisted_ExactMatch(query) ==
    \E i \in 1..Len(KeywordsConfig.whitelist.patterns) :
        query = LowerText(KeywordsConfig.whitelist.patterns[i])

\* isWhitelisted(query)
IsWhitelisted(query) ==
    \E i \in 1..Len(KeywordsConfig.whitelist.patterns) :
        Includes(query, LowerText(KeywordsConfig.whitelist.patterns[i]))

RECURSIVE MatchedTerms(_, _)
\* The terms (in configuration order) the query includes
MatchedTerms(query, terms) ==
    IF terms = <<>> THEN <<>>
    ELSE IF Includes(query, LowerText(Head(terms)))
         THEN <<Head(terms)>> \o MatchedTerms(query, Tail(terms))
         ELSE MatchedTerms(query, Tail(terms))

\* `CRA + ${term}`
CraPlus(term) == <<"CRA", "+">> \o term

\* A slip: the context requirement of a contextual category not enforced.
HasCraContext_NotRequired(query, mustContain) == TRUE

\* hasCraContext = mustContain.some((ctx) => query.includes(ctx.toLowerCase()))
HasCraContext(query, mustContain) ==
    \E i \in 1..Len(mustContain) : Includes(query, LowerText(mustContain[i]))

\* checkFakeExpiredBenefits(query).patterns
CheckFakeExpiredBenefits(query) ==
    MatchedTerms(query, KeywordsConfig.categories.fakeExpiredBenefits.terms)

\* The patterns of a contextual category: none without a mustContain term
CheckContextual(query, category) ==
    IF ~HasCraContext(query, category.mustContain) THEN <<>>
    ELSE LET matched == MatchedTerms(query, category.terms)
         IN  [i \in 1..Len(matched) |-> CraPlus(matched[i])]

\* checkIllegitimatePaymentMethods(query).patterns
CheckIllegitimatePaymentMethods(query) ==
    CheckContextual(query, KeywordsConfig.categories.illegitimatePaymentMethods)

\* checkThreatLanguage(query).patterns
CheckThreatLanguage(query) ==
    CheckContextual(query, KeywordsConfig.categories.threatLanguage)

\* checkSuspiciousModifiers(query).patterns
CheckSuspiciousModifiers(query) ==
    MatchedTerms(query, KeywordsConfig.categories.suspiciousModifiers.terms)

\* A slip: the escalated severity falls through to the payment-date check.
SeasonalAdjustment_FallThrough(seasonal, baseSeverity, month, day) ==
    LET inTaxSeason ==
            \/ (month = seasonal.taxSeason.startMonth /\ day >= seasonal.taxSeason.startDay)
            \/ (month > seasonal.taxSeason.startMonth /\ month < seasonal.taxSeason.endMonth)
            \/ (month = seasonal.taxSeason.endMonth /\ day <= seasonal.taxSeason.endDay)
        isPaymentDate ==
            \/ (month \in seasonal.gstPayment.months /\ day \in seasonal.gstPayment.days)
            \/ (month \in seasonal.ccrPayment.months /\ day \in seasonal.ccrPayment.days)
        severity == IF inTaxSeason /\ baseSeverity = "medium" THEN "high" ELSE baseSeverity
    IN  IF isPaymentDate /\ severity = "high" THEN "critical" ELSE severity

\* applySeasonalAdjustment(baseSeverity) on the date (month, day), for the
\* seasonalMultipliers of a keywords configuration
SeasonalAdjustment(seasonal, baseSeverity, month, day) ==
    LET inTaxSeason ==
            \/ (month = seasonal.taxSeason.startMonth /\ day >= seasonal.taxSeason.startDay)
            \/ (month > seasonal.taxSeason.startMonth /\ month < seasonal.taxSeason.endMonth)
            \/ (month = seasonal.taxSeason.endMonth /\ day <= seasonal.taxSeason.endDay)
        isPaymentDate ==
            \/ (month \in seasonal.gstPayment.months /\ day \in seasonal.gstPayment.days)
            \/ (month \in seasonal.ccrPayment.months /\ day \in seasonal.ccrPayment.days)
    IN  IF inTaxSeason /\ baseSeverity = "medium" THEN "high"
        ELSE IF isPaymentDate /\ baseSeverity = "high" THEN "critical"
        ELSE baseSeverity

\* applySeasonalAdjustment(baseSeverity) with this.keywordsConfig
ApplySeasonalAdjustment(baseSeverity, month, day) ==
    SeasonalAdjustment(KeywordsConfig.seasonalMultipliers, baseSeverity, month, day)

\* A slip: only the patterns of the winning category are kept.
AnalyzeQuery_WinnerOnly(rawQuery, month, day) ==
    LET query == LowerText(rawQuery)
        fake == CheckFakeExpiredBenefits(query)
        payment == CheckIllegitimatePaymentMethods(query)
        threat == CheckThreatLanguage(query)
        modifier == CheckSuspiciousModifiers(query)
        matchedPatterns ==
            IF fake # <<>> THEN fake
            ELSE IF payment # <<>> THEN payment
            ELSE IF threat # <<>> THEN threat
            ELSE modifier
        matchedCategory ==
            IF fake # <<>> THEN "Fake/Expired Benefits"
            ELSE IF payment # <<>> THEN "Illegitimate Payment Methods"
            ELSE IF threat # <<>> THEN "Threat Language"
            ELSE IF modifier # <<>> THEN "Suspicious Modifiers"
            ELSE ""
        severity ==
            IF fake # <<>> THEN "critical"
            ELSE IF payment # <<>> THEN "critical"
            ELSE IF threat # <<>> THEN "high"
            ELSE IF modifier # <<>> THEN "medium"
            ELSE "info"
    IN  IF IsWhitelisted(query) THEN Null
        ELSE IF matchedPatterns = <<>> THEN Null
        ELSE [kind |-> "flagged",
              query |-> query,
              severity |-> ApplySeasonalAdjustment(severity, month, day),
              matchedCategory |-> matchedCategory,
              matchedPatterns |-> matchedPatterns,
              status |-> "new"]

\* analyzeQuery(row) for row.keys[0] = rawQuery, analysed on (month, day)
AnalyzeQuery(rawQuery, month, day) ==
    LET query == LowerText(rawQuery)
        fake == CheckFakeExpiredBenefits(query)
        payment == CheckIllegitimatePaymentMethods(query)
        threat == CheckThreatLanguage(query)
        modifier == CheckSuspiciousModifiers(query)
        matchedPatterns == fake \o payment \o threat \o modifier
        matchedCategory ==
            IF fake # <<>> THEN "Fake/Expired Benefits"
            ELSE IF payment # <<>> THEN "Illegitimate Payment Methods"
            ELSE IF threat # <<>> THEN "Threat Language"
            ELSE IF modifier # <<>> THEN "Suspicious Modifiers"
            ELSE ""
        severity ==
            IF fake # <<>> THEN "critical"
            ELSE IF payment # <<>> THEN "critical"
            ELSE IF threat # <<>> THEN "high"
            ELSE IF modifier # <<>> THEN "medium"
            ELSE "info"
    IN  IF IsWhitelisted(query) THEN Null
        ELSE IF matchedPatterns = <<>> THEN Null
        ELSE [kind |-> "flagged",
              query |-> query,
              severity |-> ApplySeasonalAdjustment(severity, month, day),
              matchedCategory |-> matchedCategory,
              matchedPatterns |-> matchedPatterns,
              status |-> "new"]

\* The pieces of text a query is made of
Pieces == {"cra", "CRA", "login", "gift", "card", "arrest", "urgent", "rebate"}
Months == 1..12
Days == {1, 5, 15, 31}

InitScam ==
    /\ scamQuery = <<>>
    /\ scamDate = <<1, 1>>
    /\ scamPc = "input"
    /\ scamResult = Null

\* The analytics row's query text is one piece longer.
ScamExtendQuery(piece) ==
    /\ scamPc = "input"
    /\ Len(scamQuery) < MaxQueryLen
    /\ scamQuery' = Append(scamQuery, piece)
    /\ UNCHANGED <<scamDate, scamPc, scamResult>>

\* analyzeQuery(row) runs on the date (month, day).
AnalyzeQueryCall(month, day) ==
    /\ scamPc = "input"
    /\ scamDate' = <<month, day>>
    /\ scamResult' = AnalyzeQuery(scamQuery, month, day)
    /\ scamPc' = "done"
    /\ UNCHANGED scamQuery

(***************************************************************************)
(* Search Analytics query.  ctr and position are exact fractions           *)
(* [num, den]; den = 0 stands for NaN.                                     *)
(***************************************************************************)
RECURSIVE GCD(_, _)
GCD(a, b) == IF b = 0 THEN a ELSE GCD(b, a % b)

\* The fraction num / den in lowest terms (0 / 0 is NaN)
Frac(num, den) ==
    IF den = 0 THEN [num |-> 0, den |-> 0]
    ELSE LET g == GCD(num, den) IN
         IF g = 0 THEN [num |-> 0, den |-> 1] ELSE [num |-> num \div g, den |-> den \div g]

\* environment.google.craUrlFilters
CraUrlFilters ==
    <<"/en/revenue-agency/", "/fr/agence-revenu/", "/en/services/taxes/", "/fr/services/impots/">>

Pending == [kind |-> "pending"]
Failed == [kind |-> "failed"]

\* rows.map(...) of fetchWithPagination: every missing field gets its default
MapApiRow(row) ==
    [keys |-> IF "keys" \in row.has THEN row.keys ELSE <<>>,
     clicks |-> IF "clicks" \in row.has THEN row.clicks ELSE 0,
     impressions |-> IF "impressions" \in row.has THEN row.impressions ELSE 0,
     ctr |-> IF "ctr" \in row.has THEN row.ctr ELSE Frac(0, 1),
     position |-> IF "position" \in row.has THEN row.position ELSE Frac(0, 1)]

MapApiRows(rows) == [i \in 1..Len(rows) |-> MapApiRow(rows[i])]

\* row.keys[0]?.toLowerCase() || ''
KeyQuery(row) == IF row.keys = <<>> THEN "" ELSE ToLower(row.keys[1])

\* The index in queryMap of the entry for query, 0 if queryMap.get is undefined
QueryMapIndex(queryMap, query) ==
    IF \E i \in 1..Len(queryMap) : queryMap[i].keys = <<query>>
    THEN CHOOSE i \in 1..Len(queryMap) : queryMap[i].keys = <<query>>
    ELSE 0

\* The aggregate branch: existing.impressions is already the total when the
\* weighted position is computed
MergeRow(existing, row) ==
    LET totalImpressions == existing.impressions + row.impressions
        totalClicks == existing.clicks + row.clicks
    IN  [keys |-> existing.keys,
         impressions |-> totalImpressions,
         clicks |-> totalClicks,
         ctr |-> IF totalImpressions > 0 THEN Frac(totalClicks, totalImpressions)
                 ELSE Frac(0, 1),
         position |->
            IF existing.position.den = 0 \/ row.position.den = 0
            THEN Frac(0, 0)
            ELSE Frac(existing.position.num * totalImpressions * row.position.den
                        + row.position.num * row.impressions * existing.position.den,
                      existing.position.den * row.position.den * totalImpressions)]

RECURSIVE AggregateInto(_, _)
AggregateInto(queryMap, rows) ==
    IF rows = <<>> THEN queryMap
    ELSE LET row == Head(rows)
             query == KeyQuery(row)
             at == QueryMapIndex(queryMap, query)
         IN  IF at # 0
             THEN AggregateInto([queryMap EXCEPT ![at] = MergeRow(queryMap[at], row)],
                                Tail(rows))
             ELSE AggregateInto(Append(queryMap, [row EXCEPT !.keys = <<query>>]),
                                Tail(rows))

\* aggregateByQuery(rows): Array.from(queryMap.values())
AggregateByQuery(rows) == AggregateInto(<<>>, rows)

\* A slip: the error of one filter is not caught and ends the call.
CatchFilterError_Rethrow(idx, warnings) ==
    [pc |-> "aborted", warnings |-> warnings]

\* catch (error) { this.logger.warn(...) }: the loop goes on
CatchFilterError(idx, warnings) ==
    [pc |-> "fetching", warnings |-> Append(warnings, CraUrlFilters[idx])]

\* Rows as the Search Console API sends them
ApiRows ==
    { [has |-> {"keys", "clicks", "impressions", "ctr", "position"},
       keys |-> <<"CRA Gift Card">>, clicks |-> 5, impressions |-> 50,
       ctr |-> Frac(1, 10), position |-> Frac(4, 1)],
      [has |-> {"keys", "impressions", "position"},
       keys |-> <<"cra gift card">>, clicks |-> 0, impressions |-> 150,
       ctr |-> Frac(0, 1), position |-> Frac(2, 1)],
      [has |-> {"keys", "position"},
       keys |-> <<"Tax Refund">>, clicks |-> 0, impressions |-> 0,
       ctr |-> Frac(0, 1), position |-> Frac(7, 1)],
      [has |-> {},
       keys |-> <<>>, clicks |-> 0, impressions |-> 0,
       ctr |-> Frac(0, 1), position |-> Frac(0, 1)] }

RECURSIVE SeqsUpTo(_, _)
\* The sequences over S of length at most n
SeqsUpTo(S, n) ==
    IF n = 0 THEN {<<>>}
    ELSE LET shorter == SeqsUpTo(S, n - 1)
         IN  shorter \cup {Append(q, x) : q \in shorter, x \in S}

\* response.data.rows of one searchanalytics.query
ApiResponses == SeqsUpTo(ApiRows, PageSize)

InitAnalytics ==
    /\ saPc = "idle"
    /\ saIdx = 1
    /\ saAllRows = <<>>
    /\ saPageRows = <<>>
    /\ saStartRow = 0
    /\ saFetched = [i \in 1..Len(CraUrlFilters) |-> Pending]
    /\ saWarnings = <<>>
    /\ saResult = Undefined
    /\ saCache = Undefined

\* The state after the loop over craUrlFilters moved past filter idx
AfterFilter(idx, allRows, nextPc) ==
    /\ saPageRows' = <<>>
    /\ saStartRow' = 0
    /\ saAllRows' = allRows
    /\ IF nextPc = "fetching" /\ idx = Len(CraUrlFilters)
       THEN /\ saPc' = "done"
            /\ saResult' = [kind |-> "rows", rows |-> AggregateByQuery(allRows)]
            /\ saCache' = [kind |-> "rows", rows |-> AggregateByQuery(allRows)]
            /\ saIdx' = idx
       ELSE /\ saPc' = nextPc
            /\ saIdx' = IF nextPc = "fetching" THEN idx + 1 ELSE idx
            /\ UNCHANGED <<saResult, saCache>>

\* getSearchAnalytics(query): a cache hit returns, a miss starts the loop.
GetSearchAnalytics ==
    /\ saPc = "idle"
    /\ IF saCache # Undefined
       THEN /\ saResult' = saCache
            /\ saPc' = "done"
            /\ UNCHANGED <<saIdx, saAllRows, saPageRows, saStartRow, saFetched, saWarnings,
                           saCache>>
       ELSE /\ saPc' = "fetching"
            /\ saIdx' = 1
            /\ saAllRows' = <<>>
            /\ saPageRows' = <<>>
            /\ saStartRow' = 0
            /\ saFetched' = [i \in 1..Len(CraUrlFilters) |-> Pending]
            /\ saWarnings' = <<>>
            /\ saResult' = Undefined
            /\ UNCHANGED saCache

\* searchanalytics.query resolves with one page for the current filter.
QueryResolves(rows) ==
    /\ saPc = "fetching"
    /\ Len(saAllRows) + Len(saPageRows) + Len(rows) <= MaxTotalRows
    /\ LET pageRows == saPageRows \o MapApiRows(rows)
       IN  IF Len(rows) = 0 \/ Len(rows) < PageSize
           THEN /\ saFetched' = [saFetched EXCEPT ![saIdx] = [kind |-> "rows", rows |-> pageRows]]
                /\ AfterFilter(saIdx, saAllRows \o pageRows, "fetching")
                /\ UNCHANGED saWarnings
           ELSE /\ saPageRows' = pageRows
                /\ saStartRow' = saStartRow + PageSize
                /\ UNCHANGED <<saPc, saIdx, saAllRows, saFetched, saWarnings, saResult,
                               saCache>>

\* searchanalytics.query rejects: fetchWithPagination throws, the loop catches.
QueryRejects ==
    /\ saPc = "fetching"
    /\ LET caught == CatchFilterError(saIdx, saWarnings)
       IN  /\ saFetched' = [saFetched EXCEPT ![saIdx] = Failed]
           /\ saWarnings' = caught.warnings
           /\ AfterFilter(saIdx, saAllRows, caught.pc)

\* searchanalytics.query resolves with one more full page when the rows on
\* record are at the model's bound: the loop appends the page and goes on to the
\* next request.  The model keeps the rows it has on record and counts startRow
\* modulo StartRowSpan, so that a source that never runs dry stays finite-state.
QueryResolvesFullPage ==
    /\ saPc = "fetching"
    /\ Len(saAllRows) + Len(saPageRows) + PageSize > MaxTotalRows
    /\ saStartRow' = (saStartRow + PageSize) % StartRowSpan
    /\ UNCHANGED <<saPc, saIdx, saAllRows, saPageRows, saFetched, saWarnings, saResult,
                   saCache>>

\* The caller has its rows; the service is ready for the next call.
AnalyticsReturn ==
    /\ saPc = "done"
    /\ saPc' = "idle"
    /\ UNCHANGED <<saIdx, saAllRows, saPageRows, saStartRow, saFetched, saWarnings, saResult,
                   saCache>>

\* NodeCache drops the entry after analyticsTtl.
AnalyticsCacheExpires ==
    /\ saPc = "idle"
    /\ saCache # Undefined
    /\ saCache' = Undefined
    /\ UNCHANGED <<saPc, saIdx, saAllRows, saPageRows, saStartRow, saFetched, saWarnings,
                   saResult>>

(***************************************************************************)
(* Semantic Similarity Engine.  Similarities are in thousandths.           *)
(***************************************************************************)
\* seed-phrases.json: settings and phrases by category
SeedPhrasesConfig ==
    [settings |-> [similarityThreshold |-> 800],
     phrases |->
        << [category |-> "illegitimatePayment", severity |-> "critical",
            terms |-> << <<"gift", "card">> >>],
           [category |-> "threatLanguage", severity |-> "high",
            terms |-> << <<"arrest">> >>] >>]

RECURSIVE LoadSeedPhrasesFrom(_)
LoadSeedPhrasesFrom(categories) ==
    IF categories = <<>> THEN <<>>
    ELSE LET data == Head(categories)
         IN  [i \in 1..Len(data.terms) |->
                 [text |-> data.terms[i], category |-> data.category,
                  severity |-> data.severity]]
             \o LoadSeedPhrasesFrom(Tail(categories))

\* loadSeedPhrases()
LoadSeedPhrases == LoadSeedPhrasesFrom(SeedPhrasesConfig.phrases)

\* The vector the embedding backend computes for a text
BackendEmbedding(text) ==
    CASE text = <<"gift", "card">> -> <<1, 0>>
      [] text = <<"arrest">> -> <<0, 1>>
      [] text # <<"gift", "card">> /\ Includes(text, <<"gift">>) -> <<4, 3>>
      [] text # <<"arrest">> /\ ~Includes(text, <<"gift">>) /\ Includes(text, <<"arrest">>)
            -> <<3, 4>>
      [] OTHER -> <<-3, -4>>

\* response.data.map(d => d.embedding) for a batch of texts
BackendEmbeddings(texts) == [i \in 1..Len(texts) |-> BackendEmbedding(texts[i])]

RECURSIVE DotProduct(_, _)
DotProduct(a, b) ==
    IF a = <<>> THEN 0 ELSE Head(a) * Head(b) + DotProduct(Tail(a), Tail(b))

\* Math.sqrt on the squared norms of the model's vectors (perfect squares)
Sqrt(n) == CHOOSE r \in 0..n : r * r <= n /\ (r + 1) * (r + 1) > n

\* cosineSimilarity(a, b), in thousandths
CosineSimilarity(a, b) ==
    (1000 * DotProduct(a, b)) \div (Sqrt(DotProduct(a, a)) * Sqrt(DotProduct(b, b)))

\* this.seedEmbeddings.get(text): the entry's vector, <<>> when there is none
SeedEmbeddingOf(seedEmbeddings, text) ==
    IF \E i \in 1..Len(seedEmbeddings) : seedEmbeddings[i].text = text
    THEN seedEmbeddings[CHOOSE i \in 1..Len(seedEmbeddings) : seedEmbeddings[i].text = text].embedding
    ELSE <<>>

RECURSIVE InsertBySimilarity(_, _)
InsertBySimilarity(sorted, m) ==
    IF sorted = <<>> THEN <<m>>
    ELSE IF m.similarity > Head(sorted).similarity THEN <<m>> \o sorted
    ELSE <<Head(sorted)>> \o InsertBySimilarity(Tail(sorted), m)

RECURSIVE SortBySimilarityFrom(_, _)
SortBySimilarityFrom(matches, acc) ==
    IF matches = <<>> THEN acc
    ELSE SortBySimilarityFrom(Tail(matches), InsertBySimilarity(acc, Head(matches)))

\* matches.sort((a, b) => b.similarity - a.similarity), a stable sort
SortBySimilarity(matches) == SortBySimilarityFrom(matches, <<>>)

RECURSIVE MatchesAmong(_, _, _, _)
\* The loop over this.seedPhrases for one query embedding
MatchesAmong(seedPhrases, seedEmbeddings, queryEmbedding, effectiveThreshold) ==
    IF seedPhrases = <<>> THEN <<>>
    ELSE LET seedPhrase == Head(seedPhrases)
             seedEmbedding == SeedEmbeddingOf(seedEmbeddings, seedPhrase.text)
             rest == MatchesAmong(Tail(seedPhrases), seedEmbeddings, queryEmbedding,
                                  effectiveThreshold)
         IN  IF seedEmbedding = <<>> THEN rest
             ELSE LET similarity == CosineSimilarity(queryEmbedding, seedEmbedding)
                  IN  IF similarity >= effectiveThreshold
                      THEN << [phrase |-> seedPhrase.text, category |-> seedPhrase.category,
                               severity |-> seedPhrase.severity,
                               similarity |-> similarity] >> \o rest
                      ELSE rest

\* threshold ?? this.similarityThreshold
EffectiveThreshold(threshold) ==
    IF threshold.given THEN threshold.value ELSE SeedPhrasesConfig.settings.similarityThreshold

\* The sorted matches of one query, once its embedding has arrived
SortedMatches(seedPhrases, seedEmbeddings, query, threshold) ==
    SortBySimilarity(MatchesAmong(seedPhrases, seedEmbeddings,
                                  BackendEmbedding(LowerText(query)),
                                  EffectiveThreshold(threshold)))

\* analyzeQueries past its await: one QueryEmbeddingResult per query
AnalyzeQueriesResults(seedPhrases, seedEmbeddings, queries, threshold) ==
    [i \in 1..Len(queries) |->
        LET matches == SortedMatches(seedPhrases, seedEmbeddings, queries[i], threshold)
        IN  [query |-> queries[i],
             matches |-> matches,
             topMatch |-> IF matches = <<>> THEN Null ELSE matches[1],
             isScamRelated |-> Len(matches) > 0]]

\* analyzeQueries when the engine is not initialized
AnalyzeQueriesEmpty(queries) ==
    [i \in 1..Len(queries) |->
        [query |-> queries[i], matches |-> <<>>, topMatch |-> Null, isScamRelated |-> FALSE]]

\* A slip: only the client is tested, not the initialized flag.
EngineUnavailable_ClientOnly(initialized, openai) == ~openai

\* !this.initialized || !this.openai
EngineUnavailable(initialized, openai) == ~initialized \/ ~openai

\* A slip: only the first seed phrase's embedding is stored.
SeedEmbeddingEntries_FirstOnly(seedPhrases) ==
    [i \in 1..(IF Len(seedPhrases) > 0 THEN 1 ELSE 0) |->
        [text |-> seedPhrases[i].text, embedding |-> BackendEmbedding(seedPhrases[i].text)]]

\* The entries initializeSeedEmbeddings stores: texts[i] -> embeddings[i]
SeedEmbeddingEntries(seedPhrases) ==
    [i \in 1..Len(seedPhrases) |->
        [text |-> seedPhrases[i].text, embedding |-> BackendEmbedding(seedPhrases[i].text)]]

\* Queries and thresholds of the calls
EmbQueries == { <<"CRA", "gift", "card">>, <<"arrest">>, <<"cra", "login">> }
EmbThresholds == { [given |-> FALSE, value |-> 0], [given |-> TRUE, value |-> 750] }
NoCall == [op |-> "none", pc |-> "none", queries |-> <<>>, threshold |-> [given |-> FALSE, value |-> 0],
           result |-> <<>>, readyAtCall |-> FALSE, backendCalls |-> 0]

InitEmbedding ==
    /\ embOpenai = FALSE
    /\ embInitialized = FALSE
    /\ embInitPc = "new"
    /\ embSeedPhrases = <<>>
    /\ embSeedEmbeddings = <<>>
    /\ embSeedCache = Undefined
    /\ embBackendCalls = 0
    /\ embCall = NoCall

\* onModuleInit() up to the await of getEmbeddings(texts).
OnModuleInit(hasApiKey) ==
    /\ embInitPc = "new"
    /\ UNCHANGED embCall
    /\ IF ~hasApiKey
       THEN /\ embInitPc' = "done"
            /\ UNCHANGED <<embOpenai, embInitialized, embSeedPhrases, embSeedEmbeddings,
                           embSeedCache, embBackendCalls>>
       ELSE /\ embOpenai' = TRUE
            /\ embSeedPhrases' = embSeedPhrases \o LoadSeedPhrases
            /\ IF embSeedCache # Undefined
               THEN /\ embSeedEmbeddings' = embSeedCache.entries
                    /\ embInitialized' = TRUE
                    /\ embInitPc' = "done"
                    /\ UNCHANGED <<embSeedCache, embBackendCalls>>
               ELSE /\ embBackendCalls' = embBackendCalls + 1
                    /\ embInitPc' = "computing"
                    /\ UNCHANGED <<embInitialized, embSeedEmbeddings, embSeedCache>>

\* The seed batch arrives: the embeddings are stored and cached, the engine is ready.
SeedEmbeddingsResolve ==
    /\ embInitPc = "computing"
    /\ embSeedEmbeddings' = SeedEmbeddingEntries(embSeedPhrases)
    /\ embSeedCache' = [kind |-> "entries", entries |-> SeedEmbeddingEntries(embSeedPhrases)]
    /\ embInitialized' = TRUE
    /\ embInitPc' = "done"
    /\ UNCHANGED <<embOpenai, embSeedPhrases, embBackendCalls, embCall>>

\* A slip: the engine marked ready although the seed batch failed.
SeedEmbeddingsReject_MarksReady ==
    /\ embInitPc = "computing"
    /\ embInitPc' = "done"
    /\ embInitialized' = TRUE
    /\ UNCHANGED <<embOpenai, embSeedPhrases, embSeedEmbeddings,
                   embSeedCache, embBackendCalls, embCall>>

\* The seed batch fails: the error is logged, the engine stays not ready.
SeedEmbeddingsReject ==
    /\ embInitPc = "computing"
    /\ embInitPc' = "done"
    /\ UNCHANGED <<embOpenai, embInitialized, embSeedPhrases, embSeedEmbeddings,
                   embSeedCache, embBackendCalls, embCall>>

\* A call of op on queries: an unavailable engine answers at once, otherwise the
\* query texts go to the backend (an empty batch sends nothing).
EngineCall(op, queries, threshold) ==
    /\ embCall.pc # "awaiting"
    /\ UNCHANGED <<embOpenai, embInitialized, embInitPc, embSeedPhrases, embSeedEmbeddings,
                   embSeedCache>>
    /\ LET call == [op |-> op, queries |-> queries, threshold |-> threshold,
                    readyAtCall |-> embInitialized, pc |-> "returned",
                    result |-> <<>>, backendCalls |-> 0]
       IN  IF EngineUnavailable(embInitialized, embOpenai)
           THEN /\ embCall' = [call EXCEPT !.result =
                                  IF op = "analyzeQueries" THEN AnalyzeQueriesEmpty(queries)
                                  ELSE <<>>]
                /\ UNCHANGED embBackendCalls
           ELSE IF queries = <<>>
           THEN /\ embCall' = call
                /\ UNCHANGED embBackendCalls
           ELSE /\ embBackendCalls < MaxBackendCalls
                /\ embBackendCalls' = embBackendCalls + 1
                /\ embCall' = [call EXCEPT !.pc = "awaiting", !.backendCalls = 1]

\* findSimilarPhrases(query, threshold)
FindSimilarPhrases(query, threshold) == EngineCall("findSimilarPhrases", <<query>>, threshold)

\* analyzeQueries(queries, threshold)
AnalyzeQueries(queries, threshold) == EngineCall("analyzeQueries", queries, threshold)

\* The backend answers the call's batch.
EmbeddingsResolve ==
    /\ embCall.pc = "awaiting"
    /\ embCall' =
          [embCall EXCEPT
             !.pc = "returned",
             !.result =
                IF embCall.op = "analyzeQueries"
                THEN AnalyzeQueriesResults(embSeedPhrases, embSeedEmbeddings,
                                           embCall.queries, embCall.threshold)
                ELSE SortedMatches(embSeedPhrases, embSeedEmbeddings,
                                   embCall.queries[1], embCall.threshold)]
    /\ UNCHANGED <<embOpenai, embInitialized, embInitPc, embSeedPhrases, embSeedEmbeddings,
                   embSeedCache, embBackendCalls>>

\* The backend request fails: the call rejects.
EmbeddingsReject ==
    /\ embCall.pc = "awaiting"
    /\ embCall' = [embCall EXCEPT !.pc = "threw"]
    /\ UNCHANGED <<embOpenai, embInitialized, embInitPc, embSeedPhrases, embSeedEmbeddings,
                   embSeedCache, embBackendCalls>>

(***************************************************************************)
(* Risk Scorer: dynamic patterns and lexical similarity.  A query is a     *)
(* sequence of words; regular expressions with word boundaries match runs  *)
(* of whole words.                                                         *)
(***************************************************************************)
\* DYNAMIC_PATTERNS: per expression the word runs it matches
DynamicPatterns ==
    [dollarAmount |-> { <<"$500">>, <<"500", "dollars">>, <<"500", "bucks">> },
     yearReference |-> { <<"2024">>, <<"2025">>, <<"2026">> },
     urgencyWords |->
        { <<"urgent">>, <<"immediate">>, <<"immediately">>, <<"act", "now">>,
          <<"claim", "now">>, <<"apply", "now">>, <<"hurry">>, <<"limited", "time">>,
          <<"expires">>, <<"last", "chance">>, <<"final", "notice">> },
     freeMoneyPattern |->
        { <<a, b>> : a \in {"free", "bonus", "extra", "secret", "hidden", "unclaimed"},
                     b \in {"money", "cash", "payment", "benefit", "refund", "cheque",
                            "check"} },
     craContext |-> { <<"cra">>, <<"canada", "revenue">>, <<"revenue", "agency">>, <<"tax">> }]

MatchAt(text, i, phrase) ==
    /\ i + Len(phrase) - 1 <= Len(text)
    /\ SubSeq(text, i, i + Len(phrase) - 1) = phrase

\* query.match(regex): the leftmost match ([0] of the result), <<>> when null
PatternMatch(text, phrases) ==
    IF \E i \in 1..Len(text), phrase \in phrases : MatchAt(text, i, phrase)
    THEN LET at == CHOOSE i \in 1..Len(text) :
                      /\ \E phrase \in phrases : MatchAt(text, i, phrase)
                      /\ \A j \in 1..(i - 1) : \A phrase \in phrases : ~MatchAt(text, j, phrase)
         IN  CHOOSE phrase \in phrases : MatchAt(text, at, phrase)
    ELSE <<>>

\* matched.push(`${kind}: ${match[0]}`) when the expression matched
Tagged(kind, match) ==
    IF match # <<>> THEN << [kind |-> kind, text |-> match] >> ELSE <<>>

\* matched.unshift('CRA_CONTEXT') when there is CRA context and another match
WithCraContext(craMatch, matched) ==
    IF craMatch # <<>> /\ Len(matched) > 0
    THEN << [kind |-> "CRA_CONTEXT", text |-> <<>>] >> \o matched
    ELSE matched

\* checkDynamicPatterns(query)
CheckDynamicPatterns(query) ==
    WithCraContext(PatternMatch(query, DynamicPatterns.craContext),
                   Tagged("DOLLAR_AMOUNT", PatternMatch(query, DynamicPatterns.dollarAmount))
                   \o Tagged("YEAR", PatternMatch(query, DynamicPatterns.yearReference))
                   \o Tagged("URGENCY", PatternMatch(query, DynamicPatterns.urgencyWords))
                   \o Tagged("FREE_MONEY",
                             PatternMatch(query, DynamicPatterns.freeMoneyPattern)))

\* The characters of a lower-case word
WordChars(word) ==
    CASE word = "cra" -> <<"c", "r", "a">>
      [] word = "gift" -> <<"g", "i", "f", "t">>
      [] word = "card" -> <<"c", "a", "r", "d">>
      [] word = "arrest" -> <<"a", "r", "r", "e", "s", "t">>
      [] word = "rebate" -> <<"r", "e", "b", "a", "t", "e">>
      [] word = "urgent" -> <<"u", "r", "g", "e", "n", "t">>
      [] word = "login" -> <<"l", "o", "g", "i", "n">>
      [] word = "2025" -> <<"2", "0", "2", "5">>
      [] word = "to" -> <<"t", "o">>
      [] OTHER -> <<word>>

RECURSIVE TextChars(_)
\* str.replace(/\s+/g, ''): the characters of the text without whitespace
TextChars(text) ==
    IF text = <<>> THEN <<>> ELSE WordChars(Head(text)) \o TextChars(Tail(text))

Bigrams(chars) == [i \in 1..(Len(chars) - 1) |-> <<chars[i], chars[i + 1]>>]

RECURSIVE RemoveFirst(_, _)
RemoveFirst(seq, x) ==
    IF seq = <<>> THEN <<>>
    ELSE IF Head(seq) = x THEN Tail(seq)
    ELSE <<Head(seq)>> \o RemoveFirst(Tail(seq), x)

RECURSIVE IntersectionSize(_, _)
\* Each bigram of the second string uses up one equal bigram of the first
IntersectionSize(firstBigrams, secondBigrams) ==
    IF secondBigrams = <<>> THEN 0
    ELSE IF \E i \in 1..Len(firstBigrams) : firstBigrams[i] = Head(secondBigrams)
    THEN 1 + IntersectionSize(RemoveFirst(firstBigrams, Head(secondBigrams)),
                              Tail(secondBigrams))
    ELSE IntersectionSize(firstBigrams, Tail(secondBigrams))

\* The Dice coefficient of two whitespace-free character strings
DiceCoefficient(f, g) ==
    IF f = g THEN Frac(1, 1)
    ELSE IF Len(f) < 2 \/ Len(g) < 2 THEN Frac(0, 1)
    ELSE Frac(2 * IntersectionSize(Bigrams(f), Bigrams(g)), Len(f) + Len(g) - 2)

\* stringSimilarity.compareTwoStrings(first, second)
CompareTwoStrings(first, second) == DiceCoefficient(TextChars(first), TextChars(second))

\* Math.round of a non-negative fraction
RoundFrac(x) == (2 * x.num + x.den) \div (2 * x.den)

RECURSIVE UniqueFrom(_, _)
UniqueFrom(seq, acc) ==
    IF seq = <<>> THEN acc
    ELSE UniqueFrom(Tail(seq),
                    IF \E i \in 1..Len(acc) : acc[i] = Head(seq) THEN acc
                    ELSE Append(acc, Head(seq)))

RECURSIVE SelectLongWords(_)
SelectLongWords(text) ==
    IF text = <<>> THEN <<>>
    ELSE (IF Len(WordChars(Head(text))) > 2 THEN <<Head(text)>> ELSE <<>>)
         \o SelectLongWords(Tail(text))

\* new Set(str.split(/\s+/).filter(w => w.length > 2)), in insertion order
MeaningfulWords(text) == UniqueFrom(SelectLongWords(text), <<>>)

RECURSIVE SharedWords(_, _)
\* [...queryWords].filter(w => scamWords.has(w))
SharedWords(queryWords, scamWords) ==
    IF queryWords = <<>> THEN <<>>
    ELSE (IF \E i \in 1..Len(scamWords) : scamWords[i] = Head(queryWords)
          THEN <<Head(queryWords)>> ELSE <<>>)
         \o SharedWords(Tail(queryWords), scamWords)

\* allScamTerms of findSimilarScams
AllScamTerms ==
    KeywordsConfig.categories.fakeExpiredBenefits.terms
    \o KeywordsConfig.categories.illegitimatePaymentMethods.terms
    \o KeywordsConfig.categories.threatLanguage.terms

\* `${scamTerm} (${Math.round(similarity * 100)}%)` when similarity >= 0.7
DiceEntry(scamTerm, similarity) ==
    IF similarity.num * 10 >= 7 * similarity.den
    THEN << [term |-> scamTerm, kind |-> "percent",
             percent |-> RoundFrac(Frac(similarity.num * 100, similarity.den)),
             shared |-> <<>>] >>
    ELSE <<>>

RECURSIVE SimilarByDice(_, _)
\* First loop of findSimilarScams
SimilarByDice(queryLower, scamTerms) ==
    IF scamTerms = <<>> THEN <<>>
    ELSE DiceEntry(Head(scamTerms),
                   CompareTwoStrings(queryLower, LowerText(Head(scamTerms))))
         \o SimilarByDice(queryLower, Tail(scamTerms))

\* `${scamTerm} (shared: ${intersection.join(', ')})`, pushed when at least two
\* words are shared and the string is not in the list yet
AddShared(similar, scamTerm, intersection) ==
    IF Len(intersection) >= 2
       /\ ~\E i \in 1..Len(similar) :
             similar[i] = [term |-> scamTerm, kind |-> "shared", percent |-> 0,
                           shared |-> intersection]
    THEN Append(similar, [term |-> scamTerm, kind |-> "shared", percent |-> 0,
                          shared |-> intersection])
    ELSE similar

RECURSIVE SimilarByWords(_, _, _)
\* Second loop of findSimilarScams
SimilarByWords(queryLower, scamTerms, similar) ==
    IF scamTerms = <<>> THEN similar
    ELSE SimilarByWords(queryLower, Tail(scamTerms),
                        AddShared(similar, Head(scamTerms),
                                  SharedWords(MeaningfulWords(queryLower),
                                              MeaningfulWords(LowerText(Head(scamTerms))))))

\* similar.slice(0, 5)
FirstFive(similar) == SubSeq(similar, 1, IF Len(similar) < 5 THEN Len(similar) ELSE 5)

\* The two loops of findSimilarScams on the lower-cased query
SimilarTo(queryLower) ==
    FirstFive(SimilarByWords(queryLower, AllScamTerms, SimilarByDice(queryLower, AllScamTerms)))

\* findSimilarScams(query)
FindSimilarScams(query) == SimilarTo(LowerText(query))

(***************************************************************************)
(* Risk Scorer: composite score.  Term CTRs are in 1e-5, benchmark CTRs in *)
(* 1e-6, positions and the discrete factors in tenths; the continuous      *)
(* quantities are exact fractions.                                         *)
(***************************************************************************)
FracAdd(x, y) == Frac(x.num * y.den + y.num * x.den, x.den * y.den)

FracLess(x, y) == x.num * y.den < y.num * x.den

\* Math.min(1, x)
FracMin1(x) == IF x.num > x.den THEN Frac(1, 1) ELSE x

\* benchmarkKey of calculateCTRAnomaly (position in tenths)
AnomalyBenchmarkKey(position) ==
    IF position <= 30 THEN "1-3"
    ELSE IF position <= 80 THEN "4-8"
    ELSE IF position <= 150 THEN "9-15"
    ELSE "16+"

\* The CTRAnomaly of actualCTR (1e-5) against one benchmark bucket (1e-6)
AnomalyAgainst(actualCTR, benchmark) ==
    [expectedCTR |-> benchmark.expected,
     actualCTR |-> actualCTR,
     anomalyScore |-> IF actualCTR * 10 < benchmark.expected
                      THEN FracMin1(Frac(benchmark.expected - actualCTR * 10,
                                         benchmark.expected))
                      ELSE Frac(0, 1),
     isAnomalous |-> actualCTR * 10 < benchmark.min]

\* calculateCTRAnomaly(actualCTR, position, benchmarks)
CalculateCTRAnomaly(actualCTR, position, benchmarks) ==
    AnomalyAgainst(actualCTR, benchmarks.buckets[AnomalyBenchmarkKey(position)])

\* 1. CTR factor
CtrFactor(ctrAnomaly) ==
    IF ctrAnomaly.isAnomalous
    THEN FracMin1(FracAdd(ctrAnomaly.anomalyScore, Frac(3, 10)))
    ELSE ctrAnomaly.anomalyScore

\* 2. Position factor, in tenths
PositionFactor(term) ==
    LET position == term.current.position
        clicks == term.current.clicks
        impressions == term.current.impressions
    IN  IF position <= 30 /\ clicks < 50 /\ impressions > 100 THEN 9
        ELSE IF position <= 80 /\ clicks < 20 /\ impressions > 50 THEN 7
        ELSE IF position <= 150 /\ clicks < 10 /\ impressions > 30 THEN 5
        ELSE 0

\* 3. Volume factor, in tenths
VolumeFactor(term) ==
    LET impressionGrowth == term.change.impressionsPercent
    IN  IF ~FracLess(impressionGrowth, Frac(300, 1)) THEN 10
        ELSE IF ~FracLess(impressionGrowth, Frac(200, 1)) THEN 8
        ELSE IF ~FracLess(impressionGrowth, Frac(100, 1)) THEN 6
        ELSE IF ~FracLess(impressionGrowth, Frac(50, 1)) THEN 3
        ELSE 0

\* 4. Emergence factor, in tenths
EmergenceFactor(term) ==
    LET impressions == term.current.impressions
    IN  IF ~term.isNew THEN 0
        ELSE IF impressions > 100 THEN 9
        ELSE IF impressions > 50 THEN 6
        ELSE IF impressions > 20 THEN 3
        ELSE 0

\* A slip: the severity of the matched phrase ignored.
SeverityMultiplier_Flat(severity) == 20

\* severityMultiplier, in twentieths
SeverityMultiplier(severity) ==
    IF severity = "critical" THEN 26
    ELSE IF severity = "high" THEN 23
    ELSE 20

\* Math.min(cap, n * 5)
Boost(cap, n) == IF n * 5 < cap THEN n * 5 ELSE cap

\* A slip: the rounded score returned without the cap at 100.
CapRound_Uncapped(score) == RoundFrac(score)

\* Math.min(100, Math.round(score))
CapRound(score) == IF RoundFrac(score) > 100 THEN 100 ELSE RoundFrac(score)

\* A slip: the lexical similarity boost added next to a semantic match as well.
ScoreFrom_BothBoosts(ctrFactor, positionFactor, volumeFactor, emergenceFactor, patterns, similar, embeddingMatch) ==
    IF embeddingMatch # Undefined
    THEN FracAdd(FracAdd(Frac(embeddingMatch.similarity * 35
                                * SeverityMultiplier(embeddingMatch.severity), 20000),
                         Frac(ctrFactor.num * 25, ctrFactor.den)),
                 Frac(positionFactor * 15 + volumeFactor * 15 + emergenceFactor * 10
                        + 10 * (IF patterns > 0 THEN Boost(20, patterns) ELSE 0)
                        + 10 * (IF similar > 0 THEN Boost(15, similar) ELSE 0), 10))
    ELSE FracAdd(Frac(ctrFactor.num * 40, ctrFactor.den),
                 Frac(positionFactor * 25 + volumeFactor * 20 + emergenceFactor * 15
                        + 10 * (IF patterns > 0 THEN Boost(20, patterns) ELSE 0)
                        + 10 * (IF similar > 0 THEN Boost(15, similar) ELSE 0), 10))

\* The weighted base score plus the boosts, from the four factors, the number of
\* matched patterns and of similar scams, and the embedding match if any
ScoreFrom(ctrFactor, positionFactor, volumeFactor, emergenceFactor, patterns, similar, embeddingMatch) ==
    IF embeddingMatch # Undefined
    THEN FracAdd(FracAdd(Frac(embeddingMatch.similarity * 35
                                * SeverityMultiplier(embeddingMatch.severity), 20000),
                         Frac(ctrFactor.num * 25, ctrFactor.den)),
                 Frac(positionFactor * 15 + volumeFactor * 15 + emergenceFactor * 10
                        + 10 * (IF patterns > 0 THEN Boost(20, patterns) ELSE 0), 10))
    ELSE FracAdd(Frac(ctrFactor.num * 40, ctrFactor.den),
                 Frac(positionFactor * 25 + volumeFactor * 20 + emergenceFactor * 15
                        + 10 * (IF patterns > 0 THEN Boost(20, patterns) ELSE 0)
                        + 10 * (IF similar > 0 THEN Boost(15, similar) ELSE 0), 10))

\* calculateRiskScore(term, ctrAnomaly, matchedPatterns, similarScams, embeddingMatch)
CalculateRiskScore(term, ctrAnomaly, matchedPatterns, similarScams, embeddingMatch) ==
    CapRound(ScoreFrom(CtrFactor(ctrAnomaly), PositionFactor(term), VolumeFactor(term),
                       EmergenceFactor(term), Len(matchedPatterns), Len(similarScams),
                       embeddingMatch))

\* A slip: every threshold one point too low.
GetRiskLevel_OnePointLow(score) ==
    IF score >= 75 THEN "critical"
    ELSE IF score >= 50 THEN "high"
    ELSE IF score >= 30 THEN "medium"
    ELSE "low"

\* getRiskLevel(score)
GetRiskLevel(score) ==
    IF score >= 76 THEN "critical"
    ELSE IF score >= 51 THEN "high"
    ELSE IF score >= 31 THEN "medium"
    ELSE "low"

\* The EmergingThreat record, or null when there is no meaningful risk; id and
\* firstSeen (a fresh uuid and the clock) are not part of the record here
ThreatRecord(term, ctrAnomaly, matchedPatterns, similarScams, riskScore, embeddingMatch) ==
    IF embeddingMatch = Undefined /\ riskScore < 20 /\ Len(matchedPatterns) = 0
       /\ Len(similarScams) = 0
    THEN Null
    ELSE [kind |-> "threat",
          query |-> term.query,
          riskScore |-> riskScore,
          riskLevel |-> GetRiskLevel(riskScore),
          ctrAnomaly |-> ctrAnomaly,
          matchedPatterns |-> matchedPatterns,
          similarScams |-> similarScams,
          current |-> term.current,
          previous |-> term.previous,
          change |-> [impressions |-> term.change.impressions,
                      impressionsPercent |-> term.change.impressionsPercent,
                      ctrDelta |-> term.current.ctr - term.previous.ctr],
          isNew |-> term.isNew,
          status |-> "pending"]

\* The record once the anomaly, the patterns and the similar scams are known
ScoredThreat(term, ctrAnomaly, matchedPatterns, similarScams, embeddingMatch) ==
    ThreatRecord(term, ctrAnomaly, matchedPatterns, similarScams,
                 CalculateRiskScore(term, ctrAnomaly, matchedPatterns, similarScams,
                                    embeddingMatch),
                 embeddingMatch)

\* similarScams: the semantic match if there is one, else findSimilarScams(query)
SimilarScams(query, embeddingMatch) ==
    IF embeddingMatch # Undefined
    THEN << [term |-> embeddingMatch.matchedPhrase, kind |-> "semantic",
             percent |-> RoundFrac(Frac(embeddingMatch.similarity, 10)),
             shared |-> <<>>] >>
    ELSE FindSimilarScams(query)

\* analyzeTermForThreats(term, benchmarks, embeddingMatch)
AnalyzeTermForThreats(term, benchmarks, embeddingMatch) ==
    ScoredThreat(term,
                 CalculateCTRAnomaly(term.current.ctr, term.current.position, benchmarks),
                 CheckDynamicPatterns(LowerText(term.query)),
                 SimilarScams(LowerText(term.query), embeddingMatch),
                 embeddingMatch)

(***************************************************************************)
(* Emerging threats request.                                               *)
(***************************************************************************)
\* MAX_TOTAL_THREATS and PAGE_SIZE (5000 and 1000 in the source, scaled down)
MAX_TOTAL_THREATS == 2
PAGE_SIZE == 1
MAX_PAGES == 5

\* A slip: the page raised to 1 but not capped at MAX_PAGES.
ValidPage_NoUpperBound(page) == IF page > 1 THEN page ELSE 1

\* Math.max(1, Math.min(page, MAX_PAGES))
ValidPage(page) ==
    LET capped == IF page < MAX_PAGES THEN page ELSE MAX_PAGES
    IN  IF capped > 1 THEN capped ELSE 1

\* The pre-filter of STEP 1
IsCandidate(term) ==
    \/ term.isNew /\ term.current.impressions >= 20
    \/ ~FracLess(term.change.impressionsPercent, Frac(50, 1)) /\ term.current.impressions >= 50
    \/ term.current.impressions >= 500

RECURSIVE CandidateTerms(_)
\* comparison.terms.filter(...)
CandidateTerms(terms) ==
    IF terms = <<>> THEN <<>>
    ELSE (IF IsCandidate(Head(terms)) THEN <<Head(terms)>> ELSE <<>>)
         \o CandidateTerms(Tail(terms))

RECURSIVE EmbeddingResultsFrom(_, _)
\* embeddingResults.set(result.query.toLowerCase(), ...) for every result with a topMatch
EmbeddingResultsFrom(results, map) ==
    IF results = <<>> THEN map
    ELSE LET result == Head(results)
             key == LowerText(result.query)
             value == [similarity |-> result.topMatch.similarity,
                       matchedPhrase |-> result.topMatch.phrase,
                       category |-> result.topMatch.category,
                       severity |-> result.topMatch.severity]
         IN  EmbeddingResultsFrom(
                Tail(results),
                IF result.topMatch = Null THEN map
                ELSE IF \E i \in 1..Len(map) : map[i].key = key
                THEN [i \in 1..Len(map) |->
                         IF map[i].key = key THEN [key |-> key, value |-> value] ELSE map[i]]
                ELSE Append(map, [key |-> key, value |-> value]))

\* embeddingResults.get(key)
EmbeddingResultsGet(map, key) ==
    IF \E i \in 1..Len(map) : map[i].key = key
    THEN map[CHOOSE i \in 1..Len(map) : map[i].key = key].value
    ELSE Undefined

\* if (threat && threat.riskScore >= 30) allThreats.push(threat)
PushIfRisky(threat) ==
    IF threat # Null /\ threat.riskScore >= 30 THEN <<threat>> ELSE <<>>

RECURSIVE ScoreCandidates(_, _, _)
\* STEP 3: the threats with riskScore >= 30, in candidate order
ScoreCandidates(candidateTerms, benchmarks, embeddingResults) ==
    IF candidateTerms = <<>> THEN <<>>
    ELSE PushIfRisky(AnalyzeTermForThreats(
                        Head(candidateTerms), benchmarks,
                        EmbeddingResultsGet(embeddingResults,
                                            LowerText(Head(candidateTerms).query))))
         \o ScoreCandidates(Tail(candidateTerms), benchmarks, embeddingResults)

RECURSIVE InsertByRiskScore_TiesFirst(_, _)
\* A slip: an unstable sort that puts a threat before the threats of equal score.
InsertByRiskScore_TiesFirst(sorted, threat) ==
    IF sorted = <<>> THEN <<threat>>
    ELSE IF threat.riskScore >= Head(sorted).riskScore THEN <<threat>> \o sorted
    ELSE <<Head(sorted)>> \o InsertByRiskScore_TiesFirst(Tail(sorted), threat)

RECURSIVE InsertByRiskScore(_, _)
InsertByRiskScore(sorted, threat) ==
    IF sorted = <<>> THEN <<threat>>
    ELSE IF threat.riskScore > Head(sorted).riskScore THEN <<threat>> \o sorted
    ELSE <<Head(sorted)>> \o InsertByRiskScore(Tail(sorted), threat)

RECURSIVE SortByRiskScoreFrom(_, _)
SortByRiskScoreFrom(threats, acc) ==
    IF threats = <<>> THEN acc
    ELSE SortByRiskScoreFrom(Tail(threats), InsertByRiskScore(acc, Head(threats)))

\* allThreats.sort((a, b) => b.riskScore - a.riskScore), a stable sort
SortByRiskScore(threats) == SortByRiskScoreFrom(threats, <<>>)

RECURSIVE CountLevel(_, _)
\* limitedThreats.filter(t => t.riskLevel === level).length
CountLevel(threats, level) ==
    IF threats = <<>> THEN 0
    ELSE (IF Head(threats).riskLevel = level THEN 1 ELSE 0) + CountLevel(Tail(threats), level)

\* allThreats.sort(...).slice(0, MAX_TOTAL_THREATS)
LimitedThreats(allThreats) ==
    SubSeq(SortByRiskScore(allThreats), 1,
           IF Len(allThreats) < MAX_TOTAL_THREATS THEN Len(allThreats)
           ELSE MAX_TOTAL_THREATS)

\* A slip: the summary counted over the returned page.
BuildResponse_PageSummary(comparison, allThreats, validPage) ==
    LET limitedThreats == LimitedThreats(allThreats)
        totalItems == Len(limitedThreats)
        pagesNeeded == (totalItems + PAGE_SIZE - 1) \div PAGE_SIZE
        totalPages == IF MAX_PAGES < pagesNeeded THEN MAX_PAGES ELSE pagesNeeded
        startIndex == (validPage - 1) * PAGE_SIZE
        endIndex == IF startIndex + PAGE_SIZE < totalItems THEN startIndex + PAGE_SIZE
                    ELSE totalItems
        paginatedThreats == SubSeq(limitedThreats, startIndex + 1, endIndex)
    IN  [currentPeriod |-> comparison.currentPeriod,
         previousPeriod |-> comparison.previousPeriod,
         threats |-> paginatedThreats,
         summary |-> [critical |-> CountLevel(paginatedThreats, "critical"),
                      high |-> CountLevel(paginatedThreats, "high"),
                      medium |-> CountLevel(paginatedThreats, "medium"),
                      low |-> CountLevel(paginatedThreats, "low"),
                      total |-> Len(paginatedThreats)],
         pagination |-> [page |-> validPage,
                         pageSize |-> PAGE_SIZE,
                         totalItems |-> totalItems,
                         totalPages |-> totalPages,
                         hasNextPage |-> validPage < totalPages,
                         hasPrevPage |-> validPage > 1]]

\* A slip: the page start computed from the page number, not the page before it.
BuildResponse_PageOffByOne(comparison, allThreats, validPage) ==
    LET sorted == SortByRiskScore(allThreats)
        limitedThreats == SubSeq(sorted, 1, IF Len(sorted) < MAX_TOTAL_THREATS
                                            THEN Len(sorted) ELSE MAX_TOTAL_THREATS)
        totalItems == Len(limitedThreats)
        pagesNeeded == (totalItems + PAGE_SIZE - 1) \div PAGE_SIZE
        totalPages == IF MAX_PAGES < pagesNeeded THEN MAX_PAGES ELSE pagesNeeded
        startIndex == validPage * PAGE_SIZE
        endIndex == IF startIndex + PAGE_SIZE < totalItems THEN startIndex + PAGE_SIZE
                    ELSE totalItems
    IN  [currentPeriod |-> comparison.currentPeriod,
         previousPeriod |-> comparison.previousPeriod,
         threats |-> SubSeq(limitedThreats, startIndex + 1, endIndex),
         summary |-> [critical |-> CountLevel(limitedThreats, "critical"),
                      high |-> CountLevel(limitedThreats, "high"),
                      medium |-> CountLevel(limitedThreats, "medium"),
                      low |-> CountLevel(limitedThreats, "low"),
                      total |-> totalItems],
         pagination |-> [page |-> validPage,
                         pageSize |-> PAGE_SIZE,
                         totalItems |-> totalItems,
                         totalPages |-> totalPages,
                         hasNextPage |-> validPage < totalPages,
                         hasPrevPage |-> validPage > 1]]

\* The response built from the scored threats (sort, limit, page, summary)
BuildResponse(comparison, allThreats, validPage) ==
    LET sorted == SortByRiskScore(allThreats)
        limitedThreats == SubSeq(sorted, 1, IF Len(sorted) < MAX_TOTAL_THREATS
                                            THEN Len(sorted) ELSE MAX_TOTAL_THREATS)
        totalItems == Len(limitedThreats)
        pagesNeeded == (totalItems + PAGE_SIZE - 1) \div PAGE_SIZE
        totalPages == IF MAX_PAGES < pagesNeeded THEN MAX_PAGES ELSE pagesNeeded
        startIndex == (validPage - 1) * PAGE_SIZE
        endIndex == IF startIndex + PAGE_SIZE < totalItems THEN startIndex + PAGE_SIZE
                    ELSE totalItems
    IN  [currentPeriod |-> comparison.currentPeriod,
         previousPeriod |-> comparison.previousPeriod,
         threats |-> SubSeq(limitedThreats, startIndex + 1, endIndex),
         summary |-> [critical |-> CountLevel(limitedThreats, "critical"),
                      high |-> CountLevel(limitedThreats, "high"),
                      medium |-> CountLevel(limitedThreats, "medium"),
                      low |-> CountLevel(limitedThreats, "low"),
                      total |-> totalItems],
         pagination |-> [page |-> validPage,
                         pageSize |-> PAGE_SIZE,
                         totalItems |-> totalItems,
                         totalPages |-> totalPages,
                         hasNextPage |-> validPage < totalPages,
                         hasPrevPage |-> validPage > 1]]

\* A slip: the failure of the embedding analysis is not caught.
CatchEmbeddingError_Rethrow(req) ==
    [pc |-> "failed", req |-> [req EXCEPT !.embed = "failed", !.error = "embedding"]]

\* catch (error) { this.logger.warn(...) }: scoring goes on with no embedding result
CatchEmbeddingError(req) ==
    [pc |-> "scoring", req |-> [req EXCEPT !.embed = "failed"]]

\* The TermComparison comparePeriods builds for a query from its two periods
TermOf(query, current, previous) ==
    LET currentMetrics == IF current.present THEN current.metrics ELSE ZeroMetrics
        previousMetrics == IF previous.present THEN previous.metrics ELSE ZeroMetrics
    IN  [query |-> query,
         current |-> currentMetrics,
         previous |-> previousMetrics,
         change |->
            [impressions |-> currentMetrics.impressions - previousMetrics.impressions,
             impressionsPercent |->
                CalculatePercentChange(previousMetrics.impressions,
                                       currentMetrics.impressions),
             clicks |-> currentMetrics.clicks - previousMetrics.clicks,
             clicksPercent |->
                CalculatePercentChange(previousMetrics.clicks, currentMetrics.clicks),
             ctr |-> currentMetrics.ctr - previousMetrics.ctr,
             position |-> currentMetrics.position - previousMetrics.position],
         isNew |-> ~previous.present /\ current.present,
         isGone |-> previous.present /\ ~current.present]

Absent == [present |-> FALSE, metrics |-> ZeroMetrics]
Present(impressions, clicks, ctr, position) ==
    [present |-> TRUE,
     metrics |-> [impressions |-> impressions, clicks |-> clicks, ctr |-> ctr,
                  position |-> position]]

\* Terms of a comparison: a growing term, two new terms, a steady term
ThreatTermValues ==
    { TermOf(<<"cra", "gift", "card">>, Present(60, 30, 50000, 40), Present(20, 10, 50000, 40)),
      TermOf(<<"urgent", "rebate", "2025">>, Present(150, 0, 0, 20), Absent),
      TermOf(<<"arrest">>, Present(30, 3, 10000, 100), Absent),
      TermOf(<<"cra", "login">>, Present(50, 5, 10000, 40), Present(50, 5, 10000, 40)) }

\* What getCTRBenchmarks can resolve with: the catch literal or measured values
ThreatBenchmarks ==
    { FallbackBenchmarks,
      CalculateCTRBenchmarks(<<[position |-> 30, ctr |-> 2000, impressions |-> 800]>>,
                             MinImpressions) }

ThreatDays == {7}
ThreatPages == {-3, 1, 2, 7}
ThreatKeys == {<<days, ValidPage(page)>> : days \in ThreatDays, page \in ThreatPages}

\* compareWeekOverWeek() / compareMonthOverMonth() as resolved
Comparison == [currentPeriod |-> "current", previousPeriod |-> "previous", terms |-> etTerms]

NoRequest == [days |-> 7, page |-> 1, validPage |-> 1, benchmarks |-> FallbackBenchmarks,
              readyAtCheck |-> FALSE, embed |-> "none", error |-> "none"]

InitThreats ==
    /\ etTerms = <<>>
    /\ etPc = "idle"
    /\ etReq = NoRequest
    /\ etServed = Null
    /\ etCache = [key \in ThreatKeys |-> Undefined]
    /\ etRequests = 0

\* getOrSet stores the response under the request's key and returns it;
\* limitedThreats is fetchFn's capped list the response was built from.
StoreAndServe(req, response, limitedThreats) ==
    /\ etServed' = [kind |-> "served", response |-> response, benchmarks |-> req.benchmarks,
                    limitedThreats |-> limitedThreats]
    /\ etCache' = [etCache EXCEPT ![<<req.days, req.validPage>>] =
                      [kind |-> "entry", response |-> response,
                       benchmarks |-> req.benchmarks, limitedThreats |-> limitedThreats]]
    /\ etReq' = req
    /\ etPc' = "done"

\* Sort, limit, paginate and summarise the scored threats, then store and return.
FinishWith(req, allThreats) ==
    StoreAndServe(req, BuildResponse(Comparison, allThreats, req.validPage),
                  LimitedThreats(allThreats))

\* STEP 3 and the rest of fetchFn, then getOrSet stores and returns the response.
FinishRequest(req, embeddingResults) ==
    FinishWith(req, ScoreCandidates(CandidateTerms(Comparison.terms), req.benchmarks,
                                    embeddingResults))

\* The comparison source holds one more term (before the first request); the
\* comparison delivers its terms sorted by impression change, descending.
ThreatAddTerm(term) ==
    /\ etPc = "idle"
    /\ etRequests = 0
    /\ Len(etTerms) < MaxTerms
    /\ \A i \in 1..Len(etTerms) : etTerms[i].query # term.query
    /\ etTerms' = InsertByImpressionChange(etTerms, term)
    /\ UNCHANGED <<etPc, etReq, etServed, etCache, etRequests, embVars>>

\* getEmergingThreats(days, page): a cache hit returns the entry, a miss starts
\* fetchFn, which awaits the benchmarks and the comparison.
GetEmergingThreats(days, page) ==
    /\ etPc = "idle"
    /\ etRequests < MaxRequests
    /\ etRequests' = etRequests + 1
    /\ LET validPage == ValidPage(page)
           req == [NoRequest EXCEPT !.days = days, !.page = page, !.validPage = validPage]
           cached == etCache[<<days, validPage>>]
       IN  /\ etReq' = req
           /\ IF cached # Undefined
              THEN /\ etServed' = [kind |-> "served", response |-> cached.response,
                                   benchmarks |-> cached.benchmarks,
                                   limitedThreats |-> cached.limitedThreats]
                   /\ etPc' = "done"
              ELSE /\ etPc' = "fetching"
                   /\ UNCHANGED etServed
    /\ UNCHANGED <<etTerms, etCache, embVars>>

\* The benchmarks and the comparison have arrived: pre-filter, then the embedding
\* analysis if the engine is ready and there are candidates, else scoring.
ComparisonResolves(benchmarks) ==
    /\ etPc = "fetching"
    /\ LET req == [etReq EXCEPT !.benchmarks = benchmarks, !.readyAtCheck = embInitialized]
           candidateTerms == CandidateTerms(Comparison.terms)
           queries == [i \in 1..Len(candidateTerms) |-> candidateTerms[i].query]
       IN  IF embInitialized /\ Len(candidateTerms) > 0
           THEN IF EngineUnavailable(embInitialized, embOpenai)
                THEN /\ FinishRequest([req EXCEPT !.embed = "ok"],
                                      EmbeddingResultsFrom(AnalyzeQueriesEmpty(queries), <<>>))
                     /\ UNCHANGED embBackendCalls
                ELSE /\ embBackendCalls < MaxBackendCalls
                     /\ embBackendCalls' = embBackendCalls + 1
                     /\ etReq' = [req EXCEPT !.embed = "pending"]
                     /\ etPc' = "embedding"
                     /\ UNCHANGED <<etServed, etCache>>
           ELSE /\ FinishRequest([req EXCEPT !.embed = "skipped"], <<>>)
                /\ UNCHANGED embBackendCalls
    /\ UNCHANGED <<etTerms, etRequests, embOpenai, embInitialized, embInitPc, embSeedPhrases,
                   embSeedEmbeddings, embSeedCache, embCall>>

\* The comparison rejects: fetchFn throws, nothing is cached.
ComparisonRejects ==
    /\ etPc = "fetching"
    /\ etPc' = "failed"
    /\ etReq' = [etReq EXCEPT !.error = "comparison"]
    /\ UNCHANGED <<etTerms, etServed, etCache, etRequests, embVars>>

\* analyzeQueries(queries, 0.75) resolves.
ThreatEmbeddingsResolve ==
    /\ etPc = "embedding"
    /\ LET candidateTerms == CandidateTerms(Comparison.terms)
           queries == [i \in 1..Len(candidateTerms) |-> candidateTerms[i].query]
           results == AnalyzeQueriesResults(embSeedPhrases, embSeedEmbeddings, queries,
                                            [given |-> TRUE, value |-> 750])
       IN  FinishRequest([etReq EXCEPT !.embed = "ok"], EmbeddingResultsFrom(results, <<>>))
    /\ UNCHANGED <<etTerms, etRequests, embVars>>

\* analyzeQueries(queries, 0.75) rejects.
ThreatEmbeddingsReject ==
    /\ etPc = "embedding"
    /\ LET caught == CatchEmbeddingError(etReq)
       IN  IF caught.pc = "scoring"
           THEN FinishRequest(caught.req, <<>>)
           ELSE /\ etPc' = caught.pc
                /\ etReq' = caught.req
                /\ UNCHANGED <<etServed, etCache>>
    /\ UNCHANGED <<etTerms, etRequests, embVars>>

\* The value of a decimal digit character, -1 for any other character
DigitValue(char) ==
    CASE char = "0" -> 0 [] char = "1" -> 1 [] char = "2" -> 2 [] char = "3" -> 3
      [] char = "4" -> 4 [] char = "5" -> 5 [] char = "6" -> 6 [] char = "7" -> 7
      [] char = "8" -> 8 [] char = "9" -> 9 [] OTHER -> -1

RECURSIVE ParseDigits(_, _)
\* The value of the leading digits of chars after the digits read so far (acc)
ParseDigits(chars, acc) ==
    IF chars = <<>> \/ DigitValue(Head(chars)) < 0 THEN acc
    ELSE ParseDigits(Tail(chars), acc * 10 + DigitValue(Head(chars)))

\* parseInt(str, 10): an optional sign, then the leading digits; NaN without a digit
ParseInt(str) ==
    LET negative == str # <<>> /\ Head(str) = "-"
        digits == IF str # <<>> /\ Head(str) \in {"-", "+"} THEN Tail(str) ELSE str
    IN  IF digits = <<>> \/ DigitValue(Head(digits)) < 0
        THEN [kind |-> "NaN", value |-> 0]
        ELSE [kind |-> "number",
              value |-> IF negative THEN 0 - ParseDigits(digits, 0)
                        ELSE ParseDigits(digits, 0)]

\* param ? parseInt(param, 10) : default
QueryNumber(param, default) ==
    IF param = <<>> THEN [kind |-> "number", value |-> default] ELSE ParseInt(param)

\* The `days` and `page` query strings of GET emerging (<<>>: absent or empty)
ThreatDayParams == { <<>>, <<"7">> }
ThreatPageParams == { <<>>, <<"2">>, <<"-", "3">>, <<"7", "x">> }

\* ScamsController.getEmergingThreats(days, page) with numeric query strings
ControllerGetEmergingThreats(days, page) ==
    /\ QueryNumber(days, 7).kind = "number"
    /\ QueryNumber(page, 1).kind = "number"
    /\ GetEmergingThreats(QueryNumber(days, 7).value, QueryNumber(page, 1).value)

\* The caller has its answer.
ThreatReturn ==
    /\ etPc \in {"done", "failed"}
    /\ etPc' = "idle"
    /\ UNCHANGED <<etTerms, etReq, etServed, etCache, etRequests, embVars>>

\* NodeCache drops an entry after analyticsTtl.
ThreatCacheExpires(key) ==
    /\ etPc = "idle"
    /\ etCache[key] # Undefined
    /\ etCache' = [etCache EXCEPT ![key] = Undefined]
    /\ UNCHANGED <<etTerms, etPc, etReq, etServed, etRequests, embVars>>

(***************************************************************************)
(* Risk scorer on one term: analyzeTermForThreats and the riskScore >= 30  *)
(* filter of STEP 3, for a term and an optional semantic match.            *)
(***************************************************************************)
\* Query texts: with a known scam term, with year and urgency patterns, with neither
ScoreQueries ==
    { <<"arrest">>, <<"urgent", "rebate", "2025">>, <<"cra", "login">>,
      <<"cra", "$500", "2025", "urgent", "free", "money">> }

\* Metrics of the current period: impressions, clicks, ctr = clicks / impressions
ScoreCurrent ==
    { Present(m[1], m[2], (m[2] * 100000) \div m[1], position) :
        m \in { <<20, 0>>, <<60, 0>>, <<60, 30>>, <<150, 0>>, <<150, 60>>, <<500, 0>>,
                <<500, 250>> },
        position \in {20, 100, 200} }

\* The previous period: the query absent, or present with few or many impressions
ScorePrevious == { Absent, Present(20, 10, 50000, 40), Present(500, 250, 50000, 40) }

\* embeddingResults.get(...): undefined, or a top match at or above the 0.75 threshold
ScoreMatches ==
    {Undefined} \cup
    { [similarity |-> similarity, matchedPhrase |-> <<"gift", "card">>,
       category |-> "payment", severity |-> severity] :
        similarity \in {750, 1000}, severity \in {"critical", "high", "medium"} }

\* The term under analysis
ScoreTermOf(query, current, previous) == TermOf(query, current, previous)

\* What STEP 3 does with one candidate: the score, the analysed threat, the push
ScoreOutcome(riskScore, threat, benchmarks) ==
    [kind |-> "scored", riskScore |-> riskScore, threat |-> threat,
     kept |-> PushIfRisky(threat) # <<>>, benchmarks |-> benchmarks]

NoOutcome == [kind |-> "none"]

InitScorer ==
    /\ rsQuery = <<"cra", "login">>
    /\ rsCurrent = Present(20, 0, 0, 20)
    /\ rsPrevious = Absent
    /\ rsMatch = Undefined
    /\ rsPc = "input"
    /\ rsOut = NoOutcome

\* The comparison delivers the term with another query text.
ScoreSetQuery(query) ==
    /\ rsPc = "input"
    /\ rsQuery # query
    /\ rsQuery' = query
    /\ UNCHANGED <<rsCurrent, rsPrevious, rsMatch, rsPc, rsOut>>

\* The comparison delivers the term with other current metrics.
ScoreSetCurrent(metrics) ==
    /\ rsPc = "input"
    /\ rsCurrent # metrics
    /\ rsCurrent' = metrics
    /\ UNCHANGED <<rsQuery, rsPrevious, rsMatch, rsPc, rsOut>>

\* The comparison delivers the term with another previous period.
ScoreSetPrevious(previous) ==
    /\ rsPc = "input"
    /\ rsPrevious # previous
    /\ rsPrevious' = previous
    /\ UNCHANGED <<rsQuery, rsCurrent, rsMatch, rsPc, rsOut>>

\* The embedding analysis found (or did not find) a top match for the term.
ScoreSetMatch(match) ==
    /\ rsPc = "input"
    /\ rsMatch # match
    /\ rsMatch' = match
    /\ UNCHANGED <<rsQuery, rsCurrent, rsPrevious, rsPc, rsOut>>

\* One iteration of the STEP 3 loop on the term.
ScoreTerm(benchmarks) ==
    /\ rsPc = "input"
    /\ rsOut' = ScoreOutcome(
                    CalculateRiskScore(
                        ScoreTermOf(rsQuery, rsCurrent, rsPrevious),
                        CalculateCTRAnomaly(rsCurrent.metrics.ctr, rsCurrent.metrics.position,
                                            benchmarks),
                        CheckDynamicPatterns(LowerText(rsQuery)),
                        SimilarScams(LowerText(rsQuery), rsMatch),
                        rsMatch),
                    AnalyzeTermForThreats(ScoreTermOf(rsQuery, rsCurrent, rsPrevious),
                                          benchmarks, rsMatch),
                    benchmarks)
    /\ rsPc' = "done"
    /\ UNCHANGED <<rsQuery, rsCurrent, rsPrevious, rsMatch>>

(***************************************************************************)
(* Ranking: repeated runs of STEP 1 to the sort and limit over one input   *)
(* snapshot (the comparison's terms, the benchmarks, the engine's state).  *)
(***************************************************************************)
\* Terms of a snapshot: three that score alike (two of them with the same
\* impression change), one that scores lower, one that scores below 30
RankTermValues ==
    { TermOf(<<"urgent", "rebate", "2025">>, Present(150, 0, 0, 20), Absent),
      TermOf(<<"rebate", "urgent", "2025">>, Present(200, 0, 0, 20), Absent),
      TermOf(<<"2025", "urgent", "rebate">>, Present(150, 0, 0, 20), Absent),
      TermOf(<<"arrest">>, Present(150, 0, 0, 20), Absent),
      TermOf(<<"cra", "gift", "card">>, Present(60, 30, 50000, 40), Present(20, 10, 50000, 40)) }

\* embeddingResults of a run: empty without the engine, else from analyzeQueries
RankEmbeddingResults(candidateTerms, embedded) ==
    IF embedded
    THEN EmbeddingResultsFrom(
            AnalyzeQueriesResults(LoadSeedPhrases, SeedEmbeddingEntries(LoadSeedPhrases),
                                  [i \in 1..Len(candidateTerms) |-> candidateTerms[i].query],
                                  [given |-> TRUE, value |-> 750]),
            <<>>)
    ELSE <<>>

\* One run: allThreats after the sort, and the threats left by the limit
RankRunOf(allThreats, benchmarks, embedded) ==
    [benchmarks |-> benchmarks, embedded |-> embedded,
     allThreats |-> SortByRiskScore(allThreats),
     threats |-> LimitedThreats(allThreats)]

InitRank ==
    /\ rkTerms = <<>>
    /\ rkRuns = <<>>

\* The snapshot holds one more term (before the first run); the comparison
\* delivers its terms sorted by impression change, descending.
RankAddTerm(term) ==
    /\ rkRuns = <<>>
    /\ Len(rkTerms) < MaxRankTerms
    /\ \A i \in 1..Len(rkTerms) : rkTerms[i].query # term.query
    /\ rkTerms' = InsertByImpressionChange(rkTerms, term)
    /\ UNCHANGED rkRuns

\* A run over the snapshot; a later run sees the benchmarks and engine of the first.
RankRun(benchmarks, embedded) ==
    /\ Len(rkRuns) < MaxRuns
    /\ rkRuns # <<>> => (benchmarks = rkRuns[1].benchmarks /\ embedded = rkRuns[1].embedded)
    /\ rkRuns' = Append(rkRuns,
                        RankRunOf(ScoreCandidates(
                                     CandidateTerms(rkTerms), benchmarks,
                                     RankEmbeddingResults(CandidateTerms(rkTerms), embedded)),
                                  benchmarks, embedded))
    /\ UNCHANGED rkTerms

(***************************************************************************)
(* Seasonal adjustment over the tax-season windows a configuration can     *)
(* hold.                                                                   *)
(***************************************************************************)
\* Severity
Severities == {"critical", "high", "medium", "low", "info"}

\* seasonalMultipliers.taxSeason of a configuration: the window of the shipped
\* configuration shape (start month before end month), one within a single
\* month, and one over two adjacent months
TaxSeasonWindows ==
    { [startMonth |-> 2, startDay |-> 15, endMonth |-> 4, endDay |-> 30],
      [startMonth |-> 3, startDay |-> 10, endMonth |-> 3, endDay |-> 20],
      [startMonth |-> 3, startDay |-> 25, endMonth |-> 4, endDay |-> 10] }

SeasonDays == {1, 5, 10, 15, 20, 25, 30}

InitSeason ==
    /\ seasonConfig = KeywordsConfig.seasonalMultipliers
    /\ seasonDate = <<1, 1>>
    /\ seasonBase = "info"
    /\ seasonOut = "none"

\* The service is constructed with a configuration holding this tax season.
SeasonLoadConfig(taxSeason) ==
    /\ seasonConfig' = [KeywordsConfig.seasonalMultipliers EXCEPT !.taxSeason = taxSeason]
    /\ seasonOut' = "none"
    /\ UNCHANGED <<seasonDate, seasonBase>>

\* severity = this.applySeasonalAdjustment(severity) on the date (month, day)
SeasonAdjust(baseSeverity, month, day) ==
    /\ seasonDate' = <<month, day>>
    /\ seasonBase' = baseSeverity
    /\ seasonOut' = SeasonalAdjustment(seasonConfig, baseSeverity, month, day)
    /\ UNCHANGED seasonConfig

(***************************************************************************)
(* CacheService.getOrSet under two of its clients: getInterestOverTime,    *)
(* whose fetchFn returns null on failure, and detectScams, whose fetchFn   *)
(* throws on failure.                                                      *)
(***************************************************************************)
TrendKeywords == {"cra scam", "cerb"}

\* `trends:interest:${keyword}:${timeRange}` and `scams:${startDate}:${endDate}`
GosKeys == {<<"trends", keyword>> : keyword \in TrendKeywords} \cup {<<"scams", "range">>}

\* timelineData of a Google Trends answer: the value arrays of its points
TrendTimelines == { <<>>, << <<0>> >>, << <<50>>, <<100>> >> }

Thrown == [kind |-> "thrown"]

\* this.get(key): undefined when there is no entry
GosGet(c, key) == IF c[key] = NoEntry THEN Undefined ELSE c[key]

\* A slip: whatever fetchFn returned is stored.
GosStore_Always(c, key, value) == [c EXCEPT ![key] = value]

\* if (value !== null && value !== undefined) this.set(key, value, ttlSeconds)
GosStore(c, key, value) ==
    IF value # Null /\ value # Undefined THEN [c EXCEPT ![key] = value] ELSE c

RECURSIVE SumPointValues(_)
SumPointValues(data) ==
    IF data = <<>> THEN 0 ELSE Head(data) + SumPointValues(Tail(data))

\* The InterestOverTime object fetchFn builds from the timeline
InterestOverTime(keyword, timelineData) ==
    LET data == [i \in 1..Len(timelineData) |-> timelineData[i][1]]
    IN  [kind |-> "interest", keyword |-> keyword, data |-> data,
         averageInterest |-> IF Len(data) > 0 THEN Frac(SumPointValues(data), Len(data))
                             ELSE Frac(0, 1)]

\* The ScamDetectionResult fetchFn builds, by its number of flagged terms
ScamDetectionResult(total) == [kind |-> "scams", total |-> total]

NoGosCall == [key |-> <<"scams", "range">>, fetched |-> FALSE, out |-> Undefined,
              prev |-> [key |-> <<"scams", "range">>, out |-> Undefined]]

InitGetOrSet ==
    /\ gosCache = [key \in GosKeys |-> NoEntry]
    /\ gosPc = "idle"
    /\ gosCall = NoGosCall
    /\ gosFetches = 0

\* getOrSet(key, fetchFn, ttl) up to its await: a hit returns the cached value,
\* a miss invokes fetchFn.
GetOrSet(key) ==
    /\ gosPc = "idle"
    /\ IF GosGet(gosCache, key) # Undefined
       THEN /\ gosPc' = "returned"
            /\ gosCall' = [key |-> key, fetched |-> FALSE, out |-> GosGet(gosCache, key),
                           prev |-> [key |-> gosCall.key, out |-> gosCall.out]]
            /\ UNCHANGED gosFetches
       ELSE /\ gosFetches < MaxGosFetches
            /\ gosPc' = "fetching"
            /\ gosCall' = [key |-> key, fetched |-> TRUE, out |-> Undefined,
                           prev |-> [key |-> gosCall.key, out |-> gosCall.out]]
            /\ gosFetches' = gosFetches + 1
    /\ UNCHANGED gosCache

\* getInterestOverTime(keyword)
GetInterestOverTime(keyword) == GetOrSet(<<"trends", keyword>>)

\* detectScams(dateRange)
DetectScams == GetOrSet(<<"scams", "range">>)

\* The tail of getOrSet once fetchFn has returned value
GetOrSetReturns(value) ==
    /\ gosCache' = GosStore(gosCache, gosCall.key, value)
    /\ gosCall' = [gosCall EXCEPT !.out = value]
    /\ gosPc' = "returned"
    /\ UNCHANGED gosFetches

\* googleTrends.interestOverTime resolves: fetchFn returns the InterestOverTime
TrendsResolves(timelineData) ==
    /\ gosPc = "fetching"
    /\ gosCall.key[1] = "trends"
    /\ GetOrSetReturns(InterestOverTime(gosCall.key[2], timelineData))

\* googleTrends.interestOverTime rejects (or its answer does not parse): the
\* catch of fetchFn returns null
TrendsRejects ==
    /\ gosPc = "fetching"
    /\ gosCall.key[1] = "trends"
    /\ GetOrSetReturns(Null)

\* getQueriesAboveThreshold resolves: fetchFn returns the ScamDetectionResult
ScamsResolves(total) ==
    /\ gosPc = "fetching"
    /\ gosCall.key[1] = "scams"
    /\ GetOrSetReturns(ScamDetectionResult(total))

\* getQueriesAboveThreshold rejects: fetchFn throws, and so does getOrSet
ScamsRejects ==
    /\ gosPc = "fetching"
    /\ gosCall.key[1] = "scams"
    /\ gosCall' = [gosCall EXCEPT !.out = Thrown]
    /\ gosPc' = "thrown"
    /\ UNCHANGED <<gosCache, gosFetches>>

\* The caller has its answer (or the error).
GosReturn ==
    /\ gosPc \in {"returned", "thrown"}
    /\ gosPc' = "idle"
    /\ UNCHANGED <<gosCache, gosCall, gosFetches>>

\* The entry's TTL runs out.
GosExpires(key) ==
    /\ gosCache[key] # NoEntry
    /\ gosCache' = [gosCache EXCEPT ![key] = NoEntry]
    /\ UNCHANGED <<gosPc, gosCall, gosFetches>>

(***************************************************************************)
(* Specifications.                                                         *)
(***************************************************************************)
Init ==
    /\ InitCache
    /\ InitBench
    /\ InitCompare
    /\ InitScam
    /\ InitAnalytics
    /\ InitEmbedding
    /\ InitThreats
    /\ InitScorer
    /\ InitRank
    /\ InitSeason
    /\ InitGetOrSet

\* CacheService.getOrSet under concurrent getCTRBenchmarks callers
Next ==
    \/ \E c \in Callers : GetCTRBenchmarks(c) /\ UNCHANGED <<benchVars, cmpVars, scamVars, saVars, embVars, etVars, rsVars, rkVars, seasonVars, gosVars>>
    \/ \E c \in Callers : FetchResolves(c) /\ UNCHANGED <<benchVars, cmpVars, scamVars, saVars, embVars, etVars, rsVars, rkVars, seasonVars, gosVars>>
    \/ \E c \in Callers : FetchRejects(c) /\ UNCHANGED <<benchVars, cmpVars, scamVars, saVars, embVars, etVars, rsVars, rkVars, seasonVars, gosVars>>
    \/ Tick /\ UNCHANGED <<benchVars, cmpVars, scamVars, saVars, embVars, etVars, rsVars, rkVars, seasonVars, gosVars>>

Spec == Init /\ [][Next]_vars

\* The benchmark calculator on given analytics rows
NextBench ==
    \/ \E row \in BenchRowValues : BenchAddRow(row) /\ UNCHANGED <<cacheVars, cmpVars, scamVars, saVars, embVars, etVars, rsVars, rkVars, seasonVars, gosVars>>
    \/ BenchGetResolves /\ UNCHANGED <<cacheVars, cmpVars, scamVars, saVars, embVars, etVars, rsVars, rkVars, seasonVars, gosVars>>
    \/ BenchGetRejects /\ UNCHANGED <<cacheVars, cmpVars, scamVars, saVars, embVars, etVars, rsVars, rkVars, seasonVars, gosVars>>

SpecBench == Init /\ [][NextBench]_vars

\* The period comparator on given rows of the two periods
NextCompare ==
    \/ \E row \in CmpRowValues : CmpAddCurrent(row) /\ UNCHANGED <<cacheVars, benchVars, scamVars, saVars, embVars, etVars, rsVars, rkVars, seasonVars, gosVars>>
    \/ \E row \in CmpRowValues : CmpAddPrevious(row) /\ UNCHANGED <<cacheVars, benchVars, scamVars, saVars, embVars, etVars, rsVars, rkVars, seasonVars, gosVars>>
    \/ ComparePeriodsCall /\ UNCHANGED <<cacheVars, benchVars, scamVars, saVars, embVars, etVars, rsVars, rkVars, seasonVars, gosVars>>

SpecCompare == Init /\ [][NextCompare]_vars

\* The rule-based classifier on one analytics row
NextScam ==
    \/ \E piece \in Pieces : ScamExtendQuery(piece) /\ UNCHANGED <<cacheVars, benchVars, cmpVars, saVars, embVars, etVars, rsVars, rkVars, seasonVars, gosVars>>
    \/ \E month \in Months, day \in Days :
          AnalyzeQueryCall(month, day) /\ UNCHANGED <<cacheVars, benchVars, cmpVars, saVars, embVars, etVars, rsVars, rkVars, seasonVars, gosVars>>

SpecScam == Init /\ [][NextScam]_vars

\* getSearchAnalytics over the four URL filters
NextAnalytics ==
    \/ GetSearchAnalytics /\ UNCHANGED <<cacheVars, benchVars, cmpVars, scamVars, embVars, etVars, rsVars, rkVars, seasonVars, gosVars>>
    \/ \E rows \in ApiResponses :
          QueryResolves(rows) /\ UNCHANGED <<cacheVars, benchVars, cmpVars, scamVars, embVars, etVars, rsVars, rkVars, seasonVars, gosVars>>
    \/ QueryRejects /\ UNCHANGED <<cacheVars, benchVars, cmpVars, scamVars, embVars, etVars, rsVars, rkVars, seasonVars, gosVars>>
    \/ AnalyticsReturn /\ UNCHANGED <<cacheVars, benchVars, cmpVars, scamVars, embVars, etVars, rsVars, rkVars, seasonVars, gosVars>>
    \/ AnalyticsCacheExpires /\ UNCHANGED <<cacheVars, benchVars, cmpVars, scamVars, embVars, etVars, rsVars, rkVars, seasonVars, gosVars>>

SpecAnalytics == Init /\ [][NextAnalytics]_vars

\* The other components' variables, untouched by the engine
NotEmbVars == <<cacheVars, benchVars, cmpVars, scamVars, saVars, etVars, rsVars, rkVars, seasonVars, gosVars>>

\* The engine's start-up and its two public operations
NextEmbed ==
    \/ \E hasApiKey \in BOOLEAN : OnModuleInit(hasApiKey) /\ UNCHANGED NotEmbVars
    \/ SeedEmbeddingsResolve /\ UNCHANGED NotEmbVars
    \/ SeedEmbeddingsReject /\ UNCHANGED NotEmbVars
    \/ \E query \in EmbQueries, threshold \in EmbThresholds :
          FindSimilarPhrases(query, threshold) /\ UNCHANGED NotEmbVars
    \/ \E queries \in SeqsUpTo(EmbQueries, MaxBatch), threshold \in EmbThresholds :
          AnalyzeQueries(queries, threshold) /\ UNCHANGED NotEmbVars
    \/ EmbeddingsResolve /\ UNCHANGED NotEmbVars
    \/ EmbeddingsReject /\ UNCHANGED NotEmbVars

SpecEmbed == Init /\ [][NextEmbed]_vars

\* The other components' variables, untouched by a threats request
NotThreatVars == <<cacheVars, benchVars, cmpVars, scamVars, saVars, rsVars, rkVars, seasonVars, gosVars>>

\* Emerging-threats requests while the engine starts up
NextThreats ==
    \/ \E hasApiKey \in BOOLEAN : OnModuleInit(hasApiKey) /\ UNCHANGED NotEmbVars
    \/ SeedEmbeddingsResolve /\ UNCHANGED NotEmbVars
    \/ SeedEmbeddingsReject /\ UNCHANGED NotEmbVars
    \/ \E term \in ThreatTermValues : ThreatAddTerm(term) /\ UNCHANGED NotThreatVars
    \/ \E days \in ThreatDayParams, page \in ThreatPageParams :
          ControllerGetEmergingThreats(days, page) /\ UNCHANGED NotThreatVars
    \/ \E benchmarks \in ThreatBenchmarks :
          ComparisonResolves(benchmarks) /\ UNCHANGED NotThreatVars
    \/ ComparisonRejects /\ UNCHANGED NotThreatVars
    \/ ThreatEmbeddingsResolve /\ UNCHANGED NotThreatVars
    \/ ThreatEmbeddingsReject /\ UNCHANGED NotThreatVars
    \/ ThreatReturn /\ UNCHANGED NotThreatVars
    \/ \E key \in ThreatKeys : ThreatCacheExpires(key) /\ UNCHANGED NotThreatVars

SpecThreats == Init /\ [][NextThreats]_vars

\* The other components' variables, untouched by the scorer
NotScoreVars == <<cacheVars, benchVars, cmpVars, scamVars, saVars, embVars, etVars, rkVars, seasonVars, gosVars>>

\* The risk scorer on one term
NextScore ==
    \/ \E query \in ScoreQueries : ScoreSetQuery(query) /\ UNCHANGED NotScoreVars
    \/ \E metrics \in ScoreCurrent : ScoreSetCurrent(metrics) /\ UNCHANGED NotScoreVars
    \/ \E previous \in ScorePrevious : ScoreSetPrevious(previous) /\ UNCHANGED NotScoreVars
    \/ \E match \in ScoreMatches : ScoreSetMatch(match) /\ UNCHANGED NotScoreVars
    \/ \E benchmarks \in ThreatBenchmarks : ScoreTerm(benchmarks) /\ UNCHANGED NotScoreVars

SpecScore == Init /\ [][NextScore]_vars

\* The other components' variables, untouched by the ranking
NotRankVars == <<cacheVars, benchVars, cmpVars, scamVars, saVars, embVars, etVars, rsVars, seasonVars, gosVars>>

\* Runs of the ranking over one snapshot
NextRank ==
    \/ \E term \in RankTermValues : RankAddTerm(term) /\ UNCHANGED NotRankVars
    \/ \E benchmarks \in ThreatBenchmarks, embedded \in BOOLEAN :
          RankRun(benchmarks, embedded) /\ UNCHANGED NotRankVars

SpecRank == Init /\ [][NextRank]_vars

\* getSearchAnalytics against a source that answers every request and may answer
\* with full pages without end
NextAnalyticsLive ==
    \/ NextAnalytics
    \/ QueryResolvesFullPage /\ UNCHANGED <<cacheVars, benchVars, cmpVars, scamVars, embVars, etVars, rsVars, rkVars, seasonVars, gosVars>>

\* Every pending request is answered by the source: with a full page, with a
\* short or empty page, or with a rejection.
SourceAnswers ==
    /\ UNCHANGED <<cacheVars, benchVars, cmpVars, scamVars, embVars, etVars, rsVars, rkVars, seasonVars, gosVars>>
    /\ \/ QueryResolvesFullPage
       \/ \E rows \in ApiResponses : Len(rows) = PageSize /\ QueryResolves(rows)
       \/ \E rows \in ApiResponses : Len(rows) < PageSize /\ QueryResolves(rows)
       \/ QueryRejects

SpecAnalyticsLive == Init /\ [][NextAnalyticsLive]_vars /\ WF_vars(SourceAnswers)

NotSeasonVars == <<cacheVars, benchVars, cmpVars, scamVars, saVars, embVars, etVars, rsVars, rkVars, gosVars>>

\* applySeasonalAdjustment over configurations, dates and base severities
NextSeason ==
    \/ \E taxSeason \in TaxSeasonWindows : SeasonLoadConfig(taxSeason) /\ UNCHANGED NotSeasonVars
    \/ \E baseSeverity \in Severities, month \in Months, day \in SeasonDays :
          SeasonAdjust(baseSeverity, month, day) /\ UNCHANGED NotSeasonVars

SpecSeason == Init /\ [][NextSeason]_vars

NotGosVars == <<cacheVars, benchVars, cmpVars, scamVars, saVars, embVars, etVars, rsVars, rkVars, seasonVars>>

\* getOrSet calls of the trends and scam-detection services
NextGetOrSet ==
    \/ \E keyword \in TrendKeywords : GetInterestOverTime(keyword) /\ UNCHANGED NotGosVars
    \/ DetectScams /\ UNCHANGED NotGosVars
    \/ \E timelineData \in TrendTimelines : TrendsResolves(timelineData) /\ UNCHANGED NotGosVars
    \/ TrendsRejects /\ UNCHANGED NotGosVars
    \/ \E total \in {0, 2} : ScamsResolves(total) /\ UNCHANGED NotGosVars
    \/ ScamsRejects /\ UNCHANGED NotGosVars
    \/ GosReturn /\ UNCHANGED NotGosVars
    \/ \E key \in GosKeys : GosExpires(key) /\ UNCHANGED NotGosVars

SpecGetOrSet == Init /\ [][NextGetOrSet]_vars

(***************************************************************************)
(* Claims.                                                                 *)
(***************************************************************************)
\* C1: at most one computation is in flight per cache key: concurrent callers of
\* getCTRBenchmarks for the uncached benchmark key share one fetchFn invocation.
C1_SingleFlight == Cardinality({c \in Callers : pc[c] = "fetching"}) <= 1

\* C7: a benchmark older than the cache TTL is never served by getCTRBenchmarks.
C7_NeverServedStale ==
    \A c \in Callers :
        served[c] # Null => served[c].at - served[c].val.calculatedAt <= BenchmarksTtl

RangeSet == {PositionRanges[i] : i \in 1..4}

\* The static default of a bucket as the specification states it: the fixed
\* {min, expected} pair, max = expected x 1.5, sampleSize = 0.
StaticDefault(range) ==
    [positionRange |-> range,
     min |-> DefaultMin(range),
     expected |-> DefaultExpected(range),
     max |-> (3 * DefaultExpected(range)) \div 2,
     sampleSize |-> 0]

\* C5: when the benchmark computation fails, getCTRBenchmarks returns for every
\* position bucket exactly the static default benchmark (max = expected x 1.5).
C5_FailureGivesStaticDefaults ==
    (benchPc = "done" /\ benchFailed) =>
        \A range \in RangeSet : benchOut.buckets[range] = StaticDefault(range)

HasFallbackValues(b) ==
    /\ b.min = DefaultMin(b.positionRange)
    /\ b.expected = DefaultExpected(b.positionRange)
    /\ 2 * b.max = 3 * DefaultExpected(b.positionRange)

PeriodQueries(rows) == {RowQuery(rows[i]) : i \in 1..Len(rows)}

Occurrences(terms, q) == Cardinality({i \in 1..Len(terms) : terms[i].query = q})

FlagsMatchPresence(t) ==
    /\ ~(t.isNew /\ t.isGone)
    /\ (~t.isNew /\ ~t.isGone) <=>
          (t.query \in PeriodQueries(cmpCurrent) /\ t.query \in PeriodQueries(cmpPrevious))

\* C8 (as stated): every query present in either period appears exactly once in
\* the terms of comparePeriods, and isNew and isGone are never both true (both
\* false exactly when the query is present in both periods).
C8_EveryQueryOnce ==
    cmpPc = "done" =>
        /\ \A q \in PeriodQueries(cmpCurrent) \cup PeriodQueries(cmpPrevious) :
              Occurrences(cmpOut.terms, q) = 1
        /\ \A i \in 1..Len(cmpOut.terms) : FlagsMatchPresence(cmpOut.terms[i])

\* C8 (amended): every non-empty query present in either period appears exactly
\* once in the terms of comparePeriods, no other query appears, and isNew and
\* isGone are never both true (both false exactly when present in both periods).
C8_EveryNonEmptyQueryOnce ==
    cmpPc = "done" =>
        /\ \A q \in (PeriodQueries(cmpCurrent) \cup PeriodQueries(cmpPrevious)) \ {""} :
              Occurrences(cmpOut.terms, q) = 1
        /\ \A i \in 1..Len(cmpOut.terms) :
              /\ cmpOut.terms[i].query \in
                    (PeriodQueries(cmpCurrent) \cup PeriodQueries(cmpPrevious)) \ {""}
              /\ FlagsMatchPresence(cmpOut.terms[i])

\* A comparison of periods that hold a row without query text, a gone term and a
\* continuing term.
C8_Witness ==
    /\ cmpPc = "done"
    /\ Len(cmpOut.terms) = 2
    /\ \E i, j \in 1..2 :
          /\ cmpOut.terms[i].isGone
          /\ ~cmpOut.terms[j].isNew /\ ~cmpOut.terms[j].isGone
    /\ "" \in PeriodQueries(cmpCurrent)

PercentIs(pct, value) == pct.num = value * pct.den

\* previous = 0 and current > 0 gives 100; previous = 0 and current = 0 gives 0;
\* otherwise (current - previous) / previous x 100.
PercentChangeAsSpecified(pct, previous, current) ==
    /\ pct.den > 0
    /\ (previous = 0 /\ current > 0) => PercentIs(pct, 100)
    /\ (previous = 0 /\ current = 0) => PercentIs(pct, 0)
    /\ previous # 0 => pct.num * previous = (current - previous) * 100 * pct.den

\* C9: calculatePercentChange(previous, current) is 100 when previous = 0 and
\* current > 0, 0 when both are 0, and (current - previous) / previous x 100
\* otherwise; hence every new term has impressionsPercent = 100.
C9_PercentChange ==
    cmpPc = "done" =>
        /\ \A i \in 1..Len(cmpOut.terms) :
              LET t == cmpOut.terms[i]
              IN  /\ PercentChangeAsSpecified(t.change.impressionsPercent,
                                              t.previous.impressions, t.current.impressions)
                  /\ PercentChangeAsSpecified(t.change.clicksPercent,
                                              t.previous.clicks, t.current.clicks)
                  /\ (t.isNew /\ t.current.impressions > 0) =>
                        PercentIs(t.change.impressionsPercent, 100)
        /\ PercentChangeAsSpecified(cmpOut.summary.totalImpressions.changePercent,
                                    cmpOut.summary.totalImpressions.previous,
                                    cmpOut.summary.totalImpressions.current)

\* A comparison with a new term of 150 impressions, a term that grew from 50 to
\* 150 impressions (+200 %) and one with no impressions in either period.
C9_Witness ==
    /\ cmpPc = "done"
    /\ \E i \in 1..Len(cmpOut.terms) :
          /\ cmpOut.terms[i].isNew
          /\ cmpOut.terms[i].current.impressions = 150
          /\ PercentIs(cmpOut.terms[i].change.impressionsPercent, 100)
    /\ \E i \in 1..Len(cmpOut.terms) :
          /\ cmpOut.terms[i].previous.impressions = 50
          /\ cmpOut.terms[i].current.impressions = 150
          /\ PercentIs(cmpOut.terms[i].change.impressionsPercent, 200)
          /\ PercentIs(cmpOut.terms[i].change.clicksPercent, -100)

\* The normalized query contains the normalized whitelist pattern as a substring.
ContainsWhitelistPattern(rawQuery) ==
    \E i \in 1..Len(KeywordsConfig.whitelist.patterns) :
        LET pattern == LowerText(KeywordsConfig.whitelist.patterns[i])
            query == LowerText(rawQuery)
        IN  \E from \in 1..Len(query) :
                /\ from + Len(pattern) - 1 <= Len(query)
                /\ \A k \in 1..Len(pattern) : query[from + k - 1] = pattern[k]

\* C10: if the normalized query contains any whitelist pattern as a substring,
\* analyzeQuery returns null, whatever keyword categories the query also matches.
C10_WhitelistWins ==
    (scamPc = "done" /\ ContainsWhitelistPattern(scamQuery)) => scamResult = Null

\* An analysed query that contains the whitelist pattern next to a fake-benefit term.
C10_Witness ==
    /\ scamPc = "done"
    /\ scamQuery = <<"CRA", "login", "rebate">>
    /\ CheckFakeExpiredBenefits(LowerText(scamQuery)) # <<>>
    /\ scamResult = Null

RECURSIVE SucceededRows(_)
\* The rows of the filters 1..n whose fetch succeeded, in filter order
SucceededRows(n) ==
    IF n = 0 THEN <<>>
    ELSE SucceededRows(n - 1) \o (IF saFetched[n].kind = "rows" THEN saFetched[n].rows ELSE <<>>)

\* The filters whose fetch failed, in filter order
RECURSIVE FailedFilters(_)
FailedFilters(n) ==
    IF n = 0 THEN <<>>
    ELSE FailedFilters(n - 1) \o (IF saFetched[n] = Failed THEN <<CraUrlFilters[n]>> ELSE <<>>)

\* C4: in getSearchAnalytics a failure while fetching one URL filter never aborts
\* the call: the call returns the aggregation of the rows of every filter that
\* succeeded (every query of such a row is in the result), and each failure is
\* only logged as a warning.
C4_PartialFailureTolerated ==
    /\ saPc # "aborted"
    /\ saPc = "done" =>
        /\ saResult = [kind |-> "rows", rows |-> AggregateByQuery(SucceededRows(Len(CraUrlFilters)))]
        /\ \A n \in 1..Len(CraUrlFilters) :
              saFetched[n].kind = "rows" =>
                 \A i \in 1..Len(saFetched[n].rows) :
                    \E j \in 1..Len(saResult.rows) :
                       saResult.rows[j].keys = <<KeyQuery(saFetched[n].rows[i])>>
        /\ saWarnings = FailedFilters(Len(CraUrlFilters))

\* A finished call in which one filter failed between two filters that delivered rows.
C4_Witness ==
    /\ saPc = "done"
    /\ saFetched[2] = Failed
    /\ saFetched[1].kind = "rows" /\ saFetched[1].rows # <<>>
    /\ saFetched[3].kind = "rows" /\ saFetched[3].rows # <<>>
    /\ saWarnings = <<CraUrlFilters[2]>>
    /\ Len(saResult.rows) >= 1

\* C2: while the engine is NotReady (no API key, or seed embeddings not computed)
\* findSimilarPhrases returns an empty match list and analyzeQueries returns for every
\* input query a result with topMatch = null and no matches; neither throws and
\* neither sends a request to the embedding backend.
C2_NotReadyDegradesToEmpty ==
    (embCall.pc # "none" /\ ~embCall.readyAtCall) =>
        /\ embCall.pc = "returned"
        /\ embCall.backendCalls = 0
        /\ embCall.op = "findSimilarPhrases" => embCall.result = <<>>
        /\ embCall.op = "analyzeQueries" =>
              /\ Len(embCall.result) = Len(embCall.queries)
              /\ \A i \in 1..Len(embCall.queries) :
                    /\ embCall.result[i].query = embCall.queries[i]
                    /\ embCall.result[i].topMatch = Null
                    /\ embCall.result[i].matches = <<>>

\* analyzeQueries on two queries answered while the API key is set and the seed
\* embeddings are still being computed.
C2_Witness ==
    /\ embCall.op = "analyzeQueries"
    /\ embCall.pc = "returned"
    /\ Len(embCall.queries) = 2
    /\ ~embCall.readyAtCall
    /\ embOpenai
    /\ embInitPc = "computing"

RECURSIVE LexicalThreats(_, _)
\* The candidates scored without any embedding match, those below 30 dropped
LexicalThreats(candidateTerms, benchmarks) ==
    IF candidateTerms = <<>> THEN <<>>
    ELSE PushIfRisky(AnalyzeTermForThreats(Head(candidateTerms), benchmarks, Undefined))
         \o LexicalThreats(Tail(candidateTerms), benchmarks)

\* C3: when the engine is NotReady at the time getEmergingThreats consults it, or the
\* batch embedding call fails, the request still completes: no embedding error
\* reaches the caller, and the response is the one obtained by scoring every
\* candidate with the non-semantic weights and lexical similarity only.
C3_EmbeddingFailureFallsBack ==
    /\ etPc = "failed" => etReq.error # "embedding"
    /\ (etPc = "done" /\ etReq.embed \in {"skipped", "failed"}
              /\ (~etReq.readyAtCheck \/ etReq.embed = "failed")) =>
          /\ etServed.response =
                BuildResponse(Comparison,
                              LexicalThreats(CandidateTerms(etTerms), etServed.benchmarks),
                              etReq.validPage)
          /\ \A i \in 1..Len(etServed.response.threats) :
                \A j \in 1..Len(etServed.response.threats[i].similarScams) :
                   etServed.response.threats[i].similarScams[j].kind # "semantic"

\* A finished request whose embedding call failed with the engine ready: two
\* candidates, one of them close to a seed phrase, and one threat returned.
C3_Witness ==
    /\ etPc = "done"
    /\ etReq.embed = "failed"
    /\ etReq.readyAtCheck
    /\ Len(CandidateTerms(etTerms)) = 2
    /\ \E i \in 1..Len(etTerms) : etTerms[i].query = <<"arrest">>
    /\ Len(etServed.response.threats) = 1

\* The patterns a flagged term records; none when the query was not flagged.
RecordedPatterns(result) ==
    IF result = Null THEN {}
    ELSE {result.matchedPatterns[i] : i \in 1..Len(result.matchedPatterns)}

\* The phrases of a list that occur in the normalized query as a run of pieces.
PhrasesIn(rawQuery, phrases) ==
    {phrases[i] : i \in {j \in 1..Len(phrases) :
        LET phrase == LowerText(phrases[j])
            query == LowerText(rawQuery)
        IN  \E from \in 1..Len(query) :
                /\ from + Len(phrase) - 1 <= Len(query)
                /\ \A k \in 1..Len(phrase) : query[from + k - 1] = phrase[k]}}

\* The contextual categories of the keyword configuration.
ContextualCategories ==
    {KeywordsConfig.categories.illegitimatePaymentMethods,
     KeywordsConfig.categories.threatLanguage}

\* The pattern "CRA + <term>" a contextual category records for a term.
ContextPattern(term) == <<"CRA", "+">> \o term

\* C11: for an analysed query that is not whitelisted, a contextual category
\* (illegitimate payment methods, threat language) contributes patterns if and
\* only if the query contains a mustContain context term and a category term; with
\* only one of the two it contributes none; and each contributed pattern is
\* "CRA + <term>" for a category term the query contains.
C11_ContextualNeedsContextAndTerm ==
    (scamPc = "done" /\ ~ContainsWhitelistPattern(scamQuery)) =>
        \A category \in ContextualCategories :
            LET own == {ContextPattern(category.terms[i]) : i \in 1..Len(category.terms)}
                contexts == PhrasesIn(scamQuery, category.mustContain)
                terms == PhrasesIn(scamQuery, category.terms)
            IN  RecordedPatterns(scamResult) \cap own =
                    IF contexts # {} THEN {ContextPattern(t) : t \in terms} ELSE {}

\* An analysed query with a context term and a payment term, flagged critical with
\* the single pattern "CRA + gift card".
C11_Witness ==
    /\ scamPc = "done"
    /\ scamQuery = <<"CRA", "gift", "card">>
    /\ scamResult # Null
    /\ scamResult.matchedPatterns = << <<"CRA", "+", "gift", "card">> >>
    /\ scamResult.matchedCategory = "Illegitimate Payment Methods"
    /\ scamResult.severity = "critical"

\* C12: every composite risk score calculateRiskScore returns, whatever the term
\* metrics, benchmarks, patterns, lexical matches and semantic match, is an integer
\* between 0 and 100.
C12_ScoreInRange ==
    rsPc = "done" => rsOut.riskScore \in 0..100

\* A new, high-volume, never-clicked term with two patterns and a perfect critical
\* semantic match: its weighted sum exceeds 100 and the returned score is 100.
C12_Witness ==
    /\ rsPc = "done"
    /\ rsQuery = <<"urgent", "rebate", "2025">>
    /\ rsCurrent = Present(150, 0, 0, 20)
    /\ rsPrevious = Absent
    /\ rsMatch # Undefined
    /\ rsMatch.similarity = 1000
    /\ rsMatch.severity = "critical"
    /\ rsOut.riskScore = 100

\* The level the thresholds 76 / 51 / 31 assign to a score.
LevelOfScore(score) ==
    CHOOSE level \in {"critical", "high", "medium", "low"} :
        /\ level = "critical" <=> score >= 76
        /\ level = "high" <=> (51 <= score /\ score <= 75)
        /\ level = "medium" <=> (31 <= score /\ score <= 50)
        /\ level = "low" <=> score <= 30

\* C13: every EmergingThreat analyzeTermForThreats emits carries the risk level of
\* its own riskScore: critical iff score >= 76, high iff 51..75, medium iff 31..50,
\* low iff score <= 30; and its riskScore is the score calculateRiskScore returned.
C13_LevelMatchesScore ==
    (rsPc = "done" /\ rsOut.threat # Null) =>
        /\ rsOut.threat.riskScore = rsOut.riskScore
        /\ rsOut.threat.riskLevel = LevelOfScore(rsOut.threat.riskScore)

\* An emitted threat that scores exactly 30, the top of the low level.
C13_Witness ==
    /\ rsPc = "done"
    /\ rsOut.threat # Null
    /\ rsOut.threat.riskScore = 30
    /\ rsOut.threat.riskLevel = "low"
    /\ rsOut.kept

\* min(100, round(x))
CappedRound(x) ==
    LET rounded == (2 * x.num + x.den) \div (2 * x.den)
    IN  IF rounded > 100 THEN 100 ELSE rounded

\* The points (of 100) a semantic match contributes: similarity x 0.35 x severity
SemanticPoints(match) ==
    Frac(match.similarity * 35 * (CASE match.severity = "critical" -> 130
                                    [] match.severity = "high" -> 115
                                    [] OTHER -> 100), 100000)

\* The points the lexical matches contribute: 5 each, at most 15
LexicalPoints(count) == IF count * 5 > 15 THEN 15 ELSE count * 5

\* The points the matched patterns contribute: 5 each, at most 20
PatternPoints(count) == IF count * 5 > 20 THEN 20 ELSE count * 5

\* The score of the scored term with the given weights (percent) of the CTR,
\* position, volume and emergence factors, plus extra points.
WeightedScore(ctrWeight, positionWeight, volumeWeight, emergenceWeight, extra) ==
    LET term == TermOf(rsQuery, rsCurrent, rsPrevious)
        ctrFactor == CtrFactor(CalculateCTRAnomaly(rsCurrent.metrics.ctr,
                                                   rsCurrent.metrics.position,
                                                   rsOut.benchmarks))
        patterns == Len(CheckDynamicPatterns(LowerText(rsQuery)))
    IN  CappedRound(
            FracAdd(FracAdd(Frac(ctrFactor.num * ctrWeight, ctrFactor.den), extra),
                    Frac(PositionFactor(term) * positionWeight
                           + VolumeFactor(term) * volumeWeight
                           + EmergenceFactor(term) * emergenceWeight
                           + 10 * PatternPoints(patterns), 10)))

\* C14: the semantic contribution and the lexical similarity boost are never both
\* in a score: with a semantic match the score is the 35/25/15/15/10 weighting plus
\* the pattern boost and nothing for lexical matches; without one it is the
\* 40/25/20/15 weighting plus the pattern boost and the lexical boost.
C14_NoDoubleSimilarityBoost ==
    rsPc = "done" =>
        rsOut.riskScore =
            IF rsMatch # Undefined
            THEN WeightedScore(25, 15, 15, 10, SemanticPoints(rsMatch))
            ELSE WeightedScore(40, 25, 20, 15,
                               Frac(LexicalPoints(Len(FindSimilarScams(rsQuery))), 1))

\* A term that equals a known scam term (a lexical match exists) scored with a
\* semantic match, below the cap so that an extra boost would show.
C14_Witness ==
    /\ rsPc = "done"
    /\ rsQuery = <<"arrest">>
    /\ Len(FindSimilarScams(rsQuery)) > 0
    /\ rsMatch # Undefined
    /\ rsOut.riskScore < 100
    /\ rsOut.threat.similarScams[1].kind = "semantic"

\* C15: a scored candidate is kept in the result set if and only if it has a
\* semantic match, or it has a pattern or lexical-similarity signal and scores at
\* least 20, or it scores at least 30.
C15_InclusionRule ==
    (rsPc = "done" /\ IsCandidate(TermOf(rsQuery, rsCurrent, rsPrevious))) =>
        (rsOut.kept <=>
            \/ rsMatch # Undefined
            \/ /\ \/ Len(CheckDynamicPatterns(LowerText(rsQuery))) > 0
                   \/ Len(FindSimilarScams(rsQuery)) > 0
               /\ rsOut.riskScore >= 20
            \/ rsOut.riskScore >= 30)

\* The page number 1..5 nearest to the requested one.
ClampedPage(page) == CHOOSE valid \in 1..5 : \A other \in 1..5 :
    (IF valid > page THEN valid - page ELSE page - valid)
        <= (IF other > page THEN other - page ELSE page - other)

LevelCount(threats, level) ==
    Cardinality({i \in 1..Len(threats) : threats[i].riskLevel = level})

\* C17: whichever page a getEmergingThreats response returns, summary.total is the
\* size of the full capped result set and summary.critical / high / medium / low
\* are the numbers of threats of each level in that set (so they sum to the
\* total), not the counts of the returned page.
C17_SummaryOverFullSet ==
    etPc = "done" =>
        LET summary == etServed.response.summary
            full == etServed.limitedThreats
        IN  /\ summary.total = Len(full)
            /\ summary.critical = LevelCount(full, "critical")
            /\ summary.high = LevelCount(full, "high")
            /\ summary.medium = LevelCount(full, "medium")
            /\ summary.low = LevelCount(full, "low")
            /\ summary.critical + summary.high + summary.medium + summary.low
                    = summary.total
            /\ Len(full) <= MAX_TOTAL_THREATS

\* Page 2 of a result set of three scored threats capped to two: the page holds
\* one threat and the summary counts two.
C17_Witness ==
    /\ etPc = "done"
    /\ Len(CandidateTerms(etTerms)) = 3
    /\ etServed.response.pagination.page = 2
    /\ Len(etServed.response.threats) = 1
    /\ etServed.response.summary.total = 2
    /\ Len(etServed.limitedThreats) = MAX_TOTAL_THREATS

\* The place of a query among the terms of the snapshot.
TermIndex(query) == CHOOSE i \in 1..Len(rkTerms) : rkTerms[i].query = query

CorpusTexts ==
    UNION { {SeedPhrasesConfig.phrases[c].terms[t] :
                t \in 1..Len(SeedPhrasesConfig.phrases[c].terms)} :
            c \in 1..Len(SeedPhrasesConfig.phrases) }

\* C19: whenever the engine is Ready (isReady() is true), every phrase of the
\* reference corpus is a loaded seed phrase with a stored embedding vector, so the
\* matching loops skip no seed phrase.
C19_ReadyHasAllSeedEmbeddings ==
    embInitialized =>
        /\ \A text \in CorpusTexts :
              \E i \in 1..Len(embSeedPhrases) : embSeedPhrases[i].text = text
        /\ \A i \in 1..Len(embSeedPhrases) :
              \E k \in 1..Len(embSeedEmbeddings) :
                  /\ embSeedEmbeddings[k].text = embSeedPhrases[i].text
                  /\ embSeedEmbeddings[k].embedding # <<>>

\* The engine is Ready with both seed phrases embedded, and analyzeQueries has
\* answered a query that matches the second seed phrase.
C19_Witness ==
    /\ embInitialized
    /\ Len(embSeedPhrases) = 2
    /\ Len(embSeedEmbeddings) = 2
    /\ embCall.op = "analyzeQueries"
    /\ embCall.pc = "returned"
    /\ embCall.readyAtCall
    /\ \E i \in 1..Len(embCall.result) :
          /\ embCall.result[i].topMatch # Null
          /\ embCall.result[i].topMatch.phrase = <<"arrest">>

\* C20: every getSearchAnalytics call eventually completes: whatever responses the
\* source gives to the requests of the pagination loop, the loop issues finitely
\* many of them and the call returns.
C20_EveryCallCompletes == (saPc = "fetching") ~> (saPc = "done")

\* The rows of a sequence whose normalized query is query
RowsOfQuery(rows, query) == SelectSeq(rows, LAMBDA r : KeyQuery(r) = query)

RECURSIVE SumImpressions(_)
SumImpressions(rows) ==
    IF rows = <<>> THEN 0 ELSE Head(rows).impressions + SumImpressions(Tail(rows))

RECURSIVE SumClicks(_)
SumClicks(rows) ==
    IF rows = <<>> THEN 0 ELSE Head(rows).clicks + SumClicks(Tail(rows))

RECURSIVE SumWeightedPositions(_)
\* The sum of position * impressions over the rows
SumWeightedPositions(rows) ==
    IF rows = <<>> THEN Frac(0, 1)
    ELSE FracAdd(Frac(Head(rows).position.num * Head(rows).impressions, Head(rows).position.den),
                 SumWeightedPositions(Tail(rows)))

\* The impression-weighted average of the positions of the rows
WeightedAveragePosition(rows) ==
    LET weighted == SumWeightedPositions(rows)
    IN  Frac(weighted.num, weighted.den * SumImpressions(rows))

\* C21: aggregateByQuery returns exactly one row per distinct normalized query;
\* its impressions and clicks are the sums over the rows of that query, its ctr
\* is summed clicks / summed impressions and its position is the
\* impression-weighted average of the positions of those rows (the two quotients
\* are compared where the summed impressions are positive).
C21_AggregateByQuery ==
    saPc = "done" =>
        LET rows == SucceededRows(Len(CraUrlFilters))
            result == saResult.rows
        IN  /\ \A i, j \in 1..Len(result) : result[i].keys = result[j].keys => i = j
            /\ { result[j].keys : j \in 1..Len(result) }
                  = { <<KeyQuery(rows[i])>> : i \in 1..Len(rows) }
            /\ \A j \in 1..Len(result) :
                  LET duplicates == RowsOfQuery(rows, result[j].keys[1])
                      impressions == SumImpressions(duplicates)
                  IN  /\ result[j].impressions = impressions
                      /\ result[j].clicks = SumClicks(duplicates)
                      /\ impressions > 0 =>
                            /\ result[j].ctr = Frac(SumClicks(duplicates), impressions)
                            /\ result[j].position = WeightedAveragePosition(duplicates)

\* The categories in their order of precedence, with the label and the base
\* severity a flagged term gets from each.
CategoryPrecedence ==
    << [category |-> KeywordsConfig.categories.fakeExpiredBenefits, contextual |-> FALSE,
        label |-> "Fake/Expired Benefits", severity |-> "critical"],
       [category |-> KeywordsConfig.categories.illegitimatePaymentMethods, contextual |-> TRUE,
        label |-> "Illegitimate Payment Methods", severity |-> "critical"],
       [category |-> KeywordsConfig.categories.threatLanguage, contextual |-> TRUE,
        label |-> "Threat Language", severity |-> "high"],
       [category |-> KeywordsConfig.categories.suspiciousModifiers, contextual |-> FALSE,
        label |-> "Suspicious Modifiers", severity |-> "medium"] >>

RECURSIVE PatternsOfTerms(_, _, _)
\* The patterns of the terms (in configuration order) that are among the found ones
PatternsOfTerms(terms, found, contextual) ==
    IF terms = <<>> THEN <<>>
    ELSE (IF Head(terms) \in found
          THEN <<IF contextual THEN ContextPattern(Head(terms)) ELSE Head(terms)>>
          ELSE <<>>) \o PatternsOfTerms(Tail(terms), found, contextual)

\* The patterns the n-th category of the precedence order contributes for a query
PatternsOfCategory(rawQuery, n) ==
    LET entry == CategoryPrecedence[n]
    IN  IF entry.contextual /\ PhrasesIn(rawQuery, entry.category.mustContain) = {}
        THEN <<>>
        ELSE PatternsOfTerms(entry.category.terms, PhrasesIn(rawQuery, entry.category.terms),
                             entry.contextual)

\* The categories (by place in the precedence order) that match the query
MatchingCategories(rawQuery) ==
    {n \in 1..Len(CategoryPrecedence) : PatternsOfCategory(rawQuery, n) # <<>>}

\* The smallest element of a non-empty set of numbers
Least(S) == CHOOSE n \in S : \A m \in S : n <= m

\* C22: for an analysed query that is not whitelisted, the query is flagged iff
\* at least one category matched; matchedCategory and the base severity (the
\* severity before the seasonal adjustment of the date) are those of the first
\* matching category in the order fake/expired benefits, illegitimate payment
\* methods, threat language, suspicious modifiers; matchedPatterns is the
\* concatenation, in that order, of the patterns of every matching category.
C22_FirstCategoryWinsAllPatternsKept ==
    (scamPc = "done" /\ ~ContainsWhitelistPattern(scamQuery)) =>
        LET matching == MatchingCategories(scamQuery)
        IN  /\ (scamResult # Null) <=> (matching # {})
            /\ matching # {} =>
                  LET first == CategoryPrecedence[Least(matching)]
                  IN  /\ scamResult.matchedCategory = first.label
                      /\ scamResult.severity =
                            ApplySeasonalAdjustment(first.severity, scamDate[1], scamDate[2])
                      /\ scamResult.matchedPatterns =
                            PatternsOfCategory(scamQuery, 1) \o PatternsOfCategory(scamQuery, 2)
                               \o PatternsOfCategory(scamQuery, 3)
                               \o PatternsOfCategory(scamQuery, 4)

\* A query with a context term, a threat term and a suspicious modifier, analysed
\* outside the tax season: threat language wins, both patterns are kept.
C22_Witness ==
    /\ scamPc = "done"
    /\ scamQuery = <<"cra", "arrest", "urgent">>
    /\ scamDate = <<7, 1>>
    /\ scamResult # Null
    /\ scamResult.matchedCategory = "Threat Language"
    /\ scamResult.severity = "high"
    /\ scamResult.matchedPatterns = << <<"CRA", "+", "arrest">>, <<"urgent">> >>

\* (month, day) lies in the window from (startMonth, startDay) through
\* (endMonth, endDay), both ends included
InTaxSeasonWindow(taxSeason, month, day) ==
    /\ (month > taxSeason.startMonth
          \/ (month = taxSeason.startMonth /\ day >= taxSeason.startDay))
    /\ (month < taxSeason.endMonth
          \/ (month = taxSeason.endMonth /\ day <= taxSeason.endDay))

\* (month, day) is one of the configured benefit-payment dates
IsBenefitPaymentDate(seasonal, month, day) ==
    \/ (month \in seasonal.gstPayment.months /\ day \in seasonal.gstPayment.days)
    \/ (month \in seasonal.ccrPayment.months /\ day \in seasonal.ccrPayment.days)

\* C23: seasonal escalation turns 'medium' into 'high' exactly when (month, day)
\* lies inside the configured tax-season window, for every window (also one that
\* starts and ends in the same month or spans a month boundary), and turns 'high'
\* into 'critical' exactly when (month, day) is a configured benefit-payment date.
C23_SeasonalEscalation ==
    seasonOut # "none" =>
        /\ seasonBase = "medium" =>
              (seasonOut = "high"
                 <=> InTaxSeasonWindow(seasonConfig.taxSeason, seasonDate[1], seasonDate[2]))
        /\ seasonBase = "high" =>
              (seasonOut = "critical"
                 <=> IsBenefitPaymentDate(seasonConfig, seasonDate[1], seasonDate[2]))

\* The order of the severities, lowest first
SeverityRank(severity) ==
    CASE severity = "info" -> 0
      [] severity = "low" -> 1
      [] severity = "medium" -> 2
      [] severity = "high" -> 3
      [] severity = "critical" -> 4

\* C30: seasonal adjustment never lowers a severity and raises it by at most one
\* level: the result is the base severity, or 'high' for a 'medium', or 'critical'
\* for a 'high'; 'critical', 'low' and 'info' are returned unchanged; a 'medium'
\* is never escalated to 'critical', also on a payment date in the tax season.
C30_AtMostOneLevelUp ==
    seasonOut # "none" =>
        /\ SeverityRank(seasonOut) >= SeverityRank(seasonBase)
        /\ SeverityRank(seasonOut) <= SeverityRank(seasonBase) + 1
        /\ seasonOut # seasonBase =>
              \/ (seasonBase = "medium" /\ seasonOut = "high")
              \/ (seasonBase = "high" /\ seasonOut = "critical")
        /\ seasonBase \in {"critical", "low", "info"} => seasonOut = seasonBase

\* A 'medium' adjusted on April 15, a payment date inside the tax season of
\* February 15 to April 30: the result is 'high'.
C30_Witness ==
    /\ seasonConfig.taxSeason = [startMonth |-> 2, startDay |-> 15, endMonth |-> 4, endDay |-> 30]
    /\ seasonDate = <<4, 15>>
    /\ seasonBase = "medium"
    /\ seasonOut = "high"

\* min(cap, 5 x count)
BoostOf(cap, count) == IF 5 * count > cap THEN cap ELSE 5 * count

\* 1.3 / 1.15 / 1.0 for critical / high / other, in hundredths
SeverityMultiplierPercent(severity) ==
    CASE severity = "critical" -> 130
      [] severity = "high" -> 115
      [] OTHER -> 100

\* A score clamped to [0, 100] and rounded to the nearest integer
ClampedAndRounded(score) ==
    IF score.num < 0 THEN 0
    ELSE IF score.num > 100 * score.den THEN 100
    ELSE (2 * score.num + score.den) \div (2 * score.den)

\* The specified composite score of the scored term: ctr as an exact fraction,
\* position, volume and emergence in tenths, similarity in thousandths
SpecifiedScore(ctr, position, volume, emergence, patterns, lexical, match) ==
    IF match = Undefined
    THEN \* 100 x (0.40 ctr + 0.25 position + 0.20 volume + 0.15 emergence) + boosts
         FracAdd(Frac(40 * ctr.num, ctr.den),
                 Frac(25 * position + 20 * volume + 15 * emergence
                        + 10 * BoostOf(20, patterns) + 10 * BoostOf(15, lexical), 10))
    ELSE \* 100 x (0.35 similarity x multiplier + 0.25 ctr + 0.15 position
         \*        + 0.15 volume + 0.10 emergence) + patternBoost
         FracAdd(FracAdd(Frac(35 * match.similarity * SeverityMultiplierPercent(match.severity),
                              100000),
                         Frac(25 * ctr.num, ctr.den)),
                 Frac(15 * position + 15 * volume + 10 * emergence
                        + 10 * BoostOf(20, patterns), 10))

PageOfIndex(k) == (k - 1) \div PAGE_SIZE + 1

\* C25: in every served response the capped list has at most MAX_TOTAL_THREATS
\* threats, totalPages is at most MAX_PAGES, the page holds at most PAGE_SIZE
\* threats, and the pages partition the capped score-sorted list: the k-th threat
\* of the list is on page PageOfIndex(k), which is one of the pages 1..totalPages,
\* and the served page holds exactly the threats that belong on it, in list order;
\* hasNextPage iff page < totalPages and hasPrevPage iff page > 1.
C25_PagesPartitionCappedList ==
    etServed # Null =>
        LET limited == etServed.limitedThreats
            threats == etServed.response.threats
            pagination == etServed.response.pagination
            onPage == {k \in 1..Len(limited) : PageOfIndex(k) = pagination.page}
        IN  /\ Len(limited) <= MAX_TOTAL_THREATS
            /\ pagination.totalItems = Len(limited)
            /\ pagination.totalPages <= MAX_PAGES
            /\ Len(threats) <= PAGE_SIZE
            /\ \A k \in 1..Len(limited) : PageOfIndex(k) \in 1..pagination.totalPages
            /\ Len(threats) = Cardinality(onPage)
            /\ \A k \in onPage :
                  threats[k - (pagination.page - 1) * PAGE_SIZE] = limited[k]
            /\ pagination.hasNextPage <=> (pagination.page < pagination.totalPages)
            /\ pagination.hasPrevPage <=> (pagination.page > 1)

\* The last page of a capped list: three threats were scored, MAX_TOTAL_THREATS
\* are kept, and the page served is totalPages, with a page before and none after.
C25_Witness ==
    /\ etServed # Null
    /\ Len(etTerms) = 3
    /\ Len(etServed.limitedThreats) = MAX_TOTAL_THREATS
    /\ etServed.response.pagination.page = 2
    /\ etServed.response.pagination.totalPages = 2
    /\ etServed.response.threats = <<etServed.limitedThreats[2]>>
    /\ etServed.response.pagination.hasPrevPage
    /\ ~etServed.response.pagination.hasNextPage

\* Every loaded seed phrase has a stored embedding
SeedEmbeddingsObtained(seedPhrases, seedEmbeddings) ==
    /\ seedPhrases # <<>>
    /\ \A i \in 1..Len(seedPhrases) :
          \E k \in 1..Len(seedEmbeddings) : seedEmbeddings[k].text = seedPhrases[i].text

\* One step of the engine keeps readiness monotonic: Ready stays Ready; NotReady
\* becomes Ready only in a step that leaves the seed embeddings stored; an engine
\* whose start-up ended NotReady (no API key, or the seed batch failed) stays so.
ReadinessStep ==
    /\ embInitialized => embInitialized'
    /\ (~embInitialized /\ embInitialized') =>
          /\ embOpenai'
          /\ SeedEmbeddingsObtained(embSeedPhrases', embSeedEmbeddings')
    /\ (~embInitialized /\ embInitPc = "done") => ~embInitialized'
    /\ ~embOpenai' => ~embInitialized'

\* C26: the engine's readiness is monotonic: it starts NotReady, becomes Ready
\* only after the seed embeddings have been obtained, never returns from Ready to
\* NotReady, and stays NotReady for ever when no API key is configured or when
\* computing the seed embeddings fails.
C26_ReadinessMonotonic == ~embInitialized /\ [][ReadinessStep]_vars

\* The engine became Ready by computing the seed embeddings and has since answered
\* a findSimilarPhrases call as Ready.
C26_Witness ==
    /\ embInitialized
    /\ embInitPc = "done"
    /\ embBackendCalls >= 1
    /\ embSeedCache # Undefined
    /\ embCall.op = "findSimilarPhrases"
    /\ embCall.pc = "returned"
    /\ embCall.readyAtCall

\* No key of the cache holds null or undefined
NoNullCached == \A key \in GosKeys : gosCache[key] \notin {Null, Undefined}

\* One step of a getOrSet call: a call that finds a value returns it without
\* invoking fetchFn; a call that finds none invokes fetchFn; a fetchFn that
\* returned null or undefined, or threw, leaves the cache as it was.
GetOrSetStep ==
    /\ (gosPc = "idle" /\ gosPc' # "idle") =>
          IF gosCache[gosCall'.key] # NoEntry
          THEN /\ gosPc' = "returned"
               /\ gosCall'.out = gosCache[gosCall'.key]
               /\ ~gosCall'.fetched
               /\ gosFetches' = gosFetches
          ELSE /\ gosPc' = "fetching"
               /\ gosCall'.fetched
               /\ gosFetches' = gosFetches + 1
    /\ (gosPc = "fetching" /\ gosPc' # "fetching"
          /\ gosCall'.out \in {Null, Undefined, Thrown}) => gosCache' = gosCache

\* C27: the cache never holds null or undefined for a key; a fetch that returns
\* null or undefined, or throws, leaves the cache unchanged, so that the next
\* getOrSet for the key invokes the fetch again; a call that finds a cached value
\* returns it without invoking the fetch.
C27_NullNeverCached == []NoNullCached /\ [][GetOrSetStep]_vars

\* getInterestOverTime returned null for a keyword (its fetch failed), and the
\* next call for the same keyword is fetching again.
C27_Witness ==
    /\ gosPc = "fetching"
    /\ gosCall.key[1] = "trends"
    /\ gosCall.prev.key = gosCall.key
    /\ gosCall.prev.out = Null
    /\ gosCache[gosCall.key] = NoEntry
    /\ gosFetches = 2

C29_ServedPageIsValid ==
    (etServed # Null /\ etServed.response.pagination.totalItems > 0) =>
        /\ etServed.response.pagination.page
              <= etServed.response.pagination.totalPages
        /\ etServed.response.threats # <<>>

====
